---- MODULE Spec2Model ----
(***************************************************************************)
(* Model of the multi-threaded modular pipeline: the manual-reset monitor  *)
(* (plugins/sync/monitor.c), the bounded string queue                      *)
(* (plugins/sync/consumer_producer.c), the common plugin layer             *)
(* (plugins/plugin_common.c) and the driver (main.c).                      *)
(*                                                                         *)
(* Three specifications share the state:                                   *)
(*   Spec / FairSpec         the driver and the stage workers               *)
(*   SpecChan / FairSpecChan one queue with a producer and a consumer       *)
(*   SpecGate / FairSpecGate one monitor with waiters and a controller      *)
(*   SpecMulti / FairSpecMulti one queue with several producers and         *)
(*                           several consumers, one put or get each         *)
(*                                                                         *)
(* Atomicity.  A region of code that runs under a mutex and cannot block   *)
(* is one step.  pthread_cond_wait releases the monitor mutex, so           *)
(* monitor_wait is two steps: the test of the flag, and being blocked on    *)
(* the condition variable.  The queue's critical sections are split where   *)
(* the ring is between two consistent states.                               *)
(* A failure of plugin_init and a read error on stdin are inputs of the      *)
(* driver; other failures of malloc and of the pthread primitives are not   *)
(* modelled.                                                                *)
(***************************************************************************)
EXTENDS Integers, Sequences, FiniteSets, TLC

(* ------------------------------ bounds -------------------------------- *)
MaxStages == 2
MaxQueue == 2
MaxLines == 2
MaxCap == 2
MaxItems == 3
NumWaiters == 2
MaxGateOps == 3
MaxWaits == 2
NumPairs == 2
MaxChain == 3

(* ------------------------------ strings ------------------------------- *)
(* A C string is the sequence of its characters. *)
END == <<"<", "E", "N", "D", ">">>
Null == <<"NULL">>

LowerChars == <<"a","b","c","d","e","f","g","h","i","j","k","l","m",
                "n","o","p","q","r","s","t","u","v","w","x","y","z">>
UpperChars == <<"A","B","C","D","E","F","G","H","I","J","K","L","M",
                "N","O","P","Q","R","S","T","U","V","W","X","Y","Z">>

ToUpper(c) ==
    IF \E i \in 1..26 : LowerChars[i] = c
    THEN UpperChars[CHOOSE i \in 1..26 : LowerChars[i] = c]
    ELSE c

is_end_line(s) == s = END

(* ----------------------------- transforms ----------------------------- *)
UppercaserTransform(s) ==
    IF is_end_line(s) THEN s ELSE [i \in 1..Len(s) |-> ToUpper(s[i])]

FlipperTransform(s) ==
    IF is_end_line(s) THEN s ELSE [i \in 1..Len(s) |-> s[Len(s) + 1 - i]]

\* A rotation to the left: the first character wraps around to the end.
RotatorLeft(s) ==
    IF is_end_line(s) THEN s
    ELSE IF Len(s) <= 1 THEN s
    ELSE SubSeq(s, 2, Len(s)) \o <<s[1]>>

\* rotator: the last character moves to the front, the others one to the
\* right.
RotatorTransform(s) ==
    IF is_end_line(s) THEN s
    ELSE IF Len(s) <= 1 THEN s
    ELSE <<s[Len(s)]>> \o SubSeq(s, 1, Len(s) - 1)

ExpanderTransform(s) ==
    IF is_end_line(s) THEN s
    ELSE IF Len(s) = 0 THEN <<>>
    ELSE [i \in 1..(2 * Len(s) - 1) |->
             IF i % 2 = 1 THEN s[(i + 1) \div 2] ELSE " "]

LoggerTransform(s) == s

TypewriterTransform(s) == s

plugin_transform(kind, s) ==
    CASE kind = "uppercaser" -> UppercaserTransform(s)
      [] kind = "flipper"    -> FlipperTransform(s)
      [] kind = "rotator"    -> RotatorTransform(s)
      [] kind = "expander"   -> ExpanderTransform(s)
      [] kind = "logger"     -> LoggerTransform(s)
      [] kind = "typewriter" -> TypewriterTransform(s)

(* What a transform writes to stdout for the input s. *)
Emission(kind, s) ==
    IF is_end_line(s) THEN <<>>
    ELSE IF kind = "logger" THEN << <<"logger", s>> >>
    ELSE IF kind = "typewriter" /\ Len(s) > 0 THEN << <<"typewriter", s>> >>
    ELSE <<>>

(* --------------------------- model parameters ------------------------- *)
StageKinds == {"uppercaser", "logger"}
InputLines == { <<"a">>, <<"<", "e", "n", "d", ">">> }
ChanItems == { <<"a">>, <<"b">> }

Stages == 0..(MaxStages - 1)
NoStage == -1

Pipelines == UNION { [1..k -> StageKinds] : k \in 1..MaxStages }

(* ------------------------------ threads ------------------------------- *)
Drv == <<"drv", 0>>
Wrk(i) == <<"wrk", i>>
Prod == <<"prod", 0>>
Cons == <<"cons", 0>>
Waiter(k) == <<"waiter", k>>
Ctl == <<"ctl", 0>>
MProd(k) == <<"mprod", k>>
MCons(k) == <<"mcons", k>>
NoThread == <<"none", 0>>

Workers == { Wrk(i) : i \in Stages }
Waiters == { Waiter(k) : k \in 1..NumWaiters }
MProds == { MProd(k) : k \in 1..NumPairs }
MConss == { MCons(k) : k \in 1..NumPairs }
Threads == {Drv, Prod, Cons, Ctl} \cup Workers \cup Waiters \cup MProds \cup MConss

(* ------------------------------- gates -------------------------------- *)
GateNames == {"not_full", "not_empty", "finished"}
TestGate == <<0, "monitor">>
Gates == (Stages \X GateNames) \cup {TestGate}

VARIABLES
    n,            \* cfg.selected_plugin_count
    queue_size,   \* cfg.queue_size
    kinds,        \* the stage names of the command line, 1..n
    dk,           \* the driver's loop index (i in init/wire/teardown)
    fed,          \* the lines read from stdin so far
    exitcode,     \* -1 while running, else the process exit code
    initialized,  \* global_plugin_context.initialized, per stage
    next_place_work, \* global_plugin_context.next_place_work, per stage
    finished,     \* global_plugin_context.finished, per stage
    capacity,     \* q->capacity
    items,        \* q->items, slots 0..capacity-1
    count,        \* q->count
    head,         \* q->head
    tail,         \* q->tail
    live,         \* the slots whose string the queue owns
    qlock,        \* holder of the per-queue mutex
    registered,   \* the queue has an entry in the lock list
    signaled,     \* monitor_t.signaled, per gate
    pc,           \* position of each thread
    titem,        \* the argument of the put a thread is in
    got,          \* the string a thread took in get (the worker's `in`)
    putlog,       \* per queue: the strings passed to put, in call order
    getlog,       \* per queue: the strings returned by get, in return order
    tlog,         \* per stage: the inputs its transform returned a string for
    out,          \* stdout
    nsig,         \* monitor harness: signals issued
    nrst,         \* monitor harness: resets issued
    lastop,       \* monitor harness: the last of signal / reset issued
    bcast,        \* monitor harness: most waiters one signal found blocked
    mret,         \* monitor harness: returns of monitor_wait per waiter
    pquota,       \* queue harness: puts the producer will do
    cquota,       \* queue harness: gets the consumer will do
    handle,       \* p[i].handle, per stage: "none", "open" or "closed"
    errmsg,       \* the error last reported: by the driver on stderr before
                  \* exit, or by a Channel call to the harness
    argv1,        \* argv[1], the queue size as typed (command-line harness)
    tfail         \* ghost: per stage, the inputs for which its transform
                  \* returned NULL

cfgVars == <<n, queue_size, kinds, argv1>>
drvVars == <<dk, fed, exitcode>>
ctxVars == <<initialized, next_place_work, finished>>
ringVars == <<capacity, items, count, head, tail, live>>
chanVars == <<ringVars, qlock, registered>>
logVars == <<putlog, getlog, tlog, out>>
harnessVars == <<nsig, nrst, lastop, bcast, mret, pquota, cquota>>
modVars == <<handle, errmsg>>
vars == <<cfgVars, drvVars, ctxVars, chanVars, signaled, pc, titem, got,
          logVars, harnessVars, modVars, tfail>>

(* --------------------------- thread geometry -------------------------- *)
StageOf(t) == t[2]

\* The queue a thread puts into: the driver feeds stage 0, a worker forwards
\* through next_place_work, the harness producer uses queue 0.
PutChan(t) ==
    IF t[1] = "wrk" THEN next_place_work[StageOf(t)] ELSE 0

\* The queue a thread gets from: a worker reads its own stage's queue.
GetChan(t) ==
    IF t[1] = "wrk" THEN StageOf(t) ELSE 0

\* Positions inside monitor_wait: X_wait is the first test of the flag,
\* X_cwait is blocked in pthread_cond_wait, X_woke is the test after a wakeup.
PutLabels == {"put_wait", "put_cwait", "put_woke"}
GetLabels == {"get_wait", "get_cwait", "get_woke"}
FinLabels == {"fin_wait", "fin_cwait", "fin_woke"}
MonLabels == {"m_wait", "m_cwait", "m_woke"}
CWaitLabels == {"put_cwait", "get_cwait", "fin_cwait", "m_cwait"}
WaitLabels == {"put_wait", "get_wait", "fin_wait", "m_wait"}
WokeLabels == {"put_woke", "get_woke", "fin_woke", "m_woke"}

\* The monitor a thread is waiting on, by its position.
GateAt(t) ==
    CASE pc[t] \in PutLabels -> <<PutChan(t), "not_full">>
      [] pc[t] \in GetLabels -> <<GetChan(t), "not_empty">>
      [] pc[t] \in FinLabels -> <<dk, "finished">>
      [] OTHER -> TestGate

\* The position of a thread that leaves pthread_cond_wait: back to the test.
Woken(l) ==
    CASE l = "put_cwait" -> "put_woke"
      [] l = "get_cwait" -> "get_woke"
      [] l = "fin_cwait" -> "fin_woke"
      [] l = "m_cwait" -> "m_woke"
      [] OTHER -> l

\* The position of a thread that enters pthread_cond_wait.
Blocked(l) ==
    CASE l \in PutLabels -> "put_cwait"
      [] l \in GetLabels -> "get_cwait"
      [] l \in FinLabels -> "fin_cwait"
      [] l \in MonLabels -> "m_cwait"
      [] OTHER -> l

CondWaiting(t, g) == pc[t] \in CWaitLabels /\ GateAt(t) = g

(* ------------------------------ monitor ------------------------------- *)
\* pthread_cond_signal in place of the broadcast: one blocked thread wakes up.
CondSignalOne(g, p) ==
    IF \E t \in Threads : CondWaiting(t, g)
    THEN LET w == CHOOSE t \in Threads : CondWaiting(t, g)
         IN [p EXCEPT ![w] = Woken(p[w])]
    ELSE p

\* monitor_signal without the broadcast: the blocked threads stay blocked.
CondBroadcastNone(g, p) == p

\* pthread_cond_broadcast: every thread blocked on the condition wakes up.
CondBroadcast(g, p) ==
    [t \in Threads |-> IF CondWaiting(t, g) THEN Woken(p[t]) ELSE p[t]]

\* monitor_signal that wakes the waiters but does not record the signal.
monitor_signal_noflag(g) == signaled

\* monitor_signal: signaled = 1 (the broadcast is CondBroadcast).
monitor_signal_flag(g) == [signaled EXCEPT ![g] = TRUE]

\* monitor_reset: signaled = 0.
monitor_reset_flag(g) == [signaled EXCEPT ![g] = FALSE]

\* monitor_wait that does not test the flag on entry.
WaitPassesAlways(g) == TRUE

\* monitor_wait: the loop condition `while (!m->signaled)` is false on entry.
WaitPasses(g) == signaled[g]

\* monitor_wait with `if` in place of `while`: no test after the wakeup.
WaitRecheckIf(g) == TRUE

\* monitor_wait: the loop condition is false when tested again after
\* pthread_cond_wait returned.
WaitRecheck(g) == signaled[g]

(* ------------------------------- queue -------------------------------- *)
\* put with `>` in place of `==` in the loop condition.
PutMustWaitGt(q) == count[q] > capacity[q]

\* put without the loop on a full ring.
PutNeverWaits(q) == FALSE

\* put's loop test, were it to wait while one slot is still free.
PutMustWaitEarly(q) == count[q] + 1 >= capacity[q]

\* consumer_producer_put: the loop condition `while (q->count == q->capacity)`.
PutMustWait(q) == count[q] = capacity[q]

\* get with `> 1` in place of `> 0`.
GetHasItemOffByOne(q) == count[q] > 1

\* get with `>= 0` in place of `> 0`: it takes from an empty ring.
GetHasItemGe(q) == count[q] >= 0

\* consumer_producer_get: `if (q->count > 0)`.
GetHasItem(q) == count[q] > 0

\* put that writes at the read index.
PutSlotHead(q) == head[q]

\* consumer_producer_put: the slot it writes, q->items[q->tail].
PutSlot(q) == tail[q]

\* get that reads the newest element.
GetSlotNewest(q) == (tail[q] + capacity[q] - 1) % capacity[q]

\* consumer_producer_get: the slot it reads, q->items[q->head].
GetSlot(q) == head[q]

\* Advance of an index with wrap-around.
RingNext(q, i) == (i + 1) % capacity[q]

EmptyRing(cap) == [i \in 0..(cap - 1) |-> Null]

(* ------------------------- returns to the caller ---------------------- *)
\* A worker that never takes a string for the shutdown marker.
IsShutdownMarkerNever(in) == FALSE

\* plugin_consumer_thread: `strcmp(in, "<END>") == 0`.
IsShutdownMarker(in) == in = END

\* feed_input without the `break` after the terminator was placed.
AfterPutKeepsReading(t) ==
    CASE t = Drv -> "d_feed"
      [] t[1] = "wrk" -> IF IsShutdownMarker(got[t]) THEN "w_finish" ELSE "get_lock"
      [] OTHER -> "p_idle"

\* A worker whose `break` is outside the test for the shutdown marker.
AfterPutBreaks(t) ==
    CASE t = Drv -> IF titem[t] = END THEN "fin_wait" ELSE "d_feed"
      [] t[1] = "wrk" -> "w_finish"
      [] OTHER -> "p_idle"

\* Where a thread continues when its put has returned: feed_input reads the
\* next line, or leaves the loop after <END>; a worker takes the next string,
\* or leaves its loop after it forwarded <END>; a harness thread is done.
AfterPut(t) ==
    CASE t = Drv -> IF titem[t] = END THEN "fin_wait" ELSE "d_feed"
      [] t[1] = "wrk" -> IF IsShutdownMarker(got[t]) THEN "w_finish" ELSE "get_lock"
      [] OTHER -> "p_idle"

\* Where a thread continues when its get has returned.
AfterGet(t) == IF t[1] = "wrk" THEN "w_have" ELSE "c_idle"

(* -------------------------------- Init -------------------------------- *)
InitCommon ==
    /\ dk = 0
    /\ fed = <<>>
    /\ exitcode = -1
    /\ initialized = [i \in Stages |-> FALSE]
    /\ next_place_work = [i \in Stages |-> NoStage]
    /\ finished = [i \in Stages |-> FALSE]
    /\ count = [q \in Stages |-> 0]
    /\ head = [q \in Stages |-> 0]
    /\ tail = [q \in Stages |-> 0]
    /\ live = [q \in Stages |-> {}]
    /\ qlock = [q \in Stages |-> NoThread]
    /\ signaled = [g \in Gates |-> FALSE]
    /\ titem = [t \in Threads |-> Null]
    /\ got = [t \in Threads |-> Null]
    /\ putlog = [q \in Stages |-> <<>>]
    /\ getlog = [q \in Stages |-> <<>>]
    /\ tlog = [i \in Stages |-> <<>>]
    /\ tfail = [i \in Stages |-> <<>>]
    /\ out = <<>>
    /\ nsig = 0
    /\ nrst = 0
    /\ lastop = "init"
    /\ bcast = 0
    /\ mret = [t \in Waiters |-> 0]
    /\ handle = [i \in Stages |-> "none"]
    /\ errmsg = "none"

\* The driver after parse_command_line, about to load the stage modules.
Init ==
    /\ InitCommon
    /\ argv1 = <<>>
    /\ kinds \in Pipelines
    /\ n = Len(kinds)
    /\ queue_size \in 1..MaxQueue
    /\ capacity = [q \in Stages |-> 0]
    /\ items = [q \in Stages |-> <<>>]
    /\ registered = [q \in Stages |-> FALSE]
    /\ pc = [t \in Threads |-> IF t = Drv THEN "d_load" ELSE "off"]
    /\ pquota = 0
    /\ cquota = 0

(* ------------------------------ put / get ----------------------------- *)
\* A call of consumer_producer_put(q, item) by thread t: the caller's part.
CallPut(t, q, item) ==
    /\ titem' = [titem EXCEPT ![t] = item]
    /\ putlog' = [putlog EXCEPT ![q] = Append(@, item)]

\* The lock of queue q after thread t found it must wait, were t to keep
\* the lock while it waits.
HoldAcrossWait(q, t) == [qlock EXCEPT ![q] = t]

\* put and get, before monitor_wait: pthread_mutex_unlock(queue_lock).
UnlockBeforeWait(q, t) == [qlock EXCEPT ![q] = NoThread]

\* put: lock; while full { reset not_full; unlock; wait; lock }.
PutLock(t) ==
    /\ pc[t] = "put_lock"
    /\ LET q == PutChan(t) IN
       /\ qlock[q] = NoThread
       /\ IF PutMustWait(q)
          THEN /\ signaled' = monitor_reset_flag(<<q, "not_full">>)
               /\ pc' = [pc EXCEPT ![t] = "put_wait"]
               /\ qlock' = UnlockBeforeWait(q, t)
          ELSE /\ qlock' = [qlock EXCEPT ![q] = t]
               /\ pc' = [pc EXCEPT ![t] = "put_store"]
               /\ UNCHANGED signaled
    /\ UNCHANGED <<cfgVars, tfail, modVars, drvVars, ctxVars, ringVars, registered, titem, got,
                   logVars, harnessVars>>

\* put: items[tail] = copy of item; tail = (tail + 1) % capacity.
PutStore(t) ==
    /\ pc[t] = "put_store"
    /\ LET q == PutChan(t) IN
       /\ items' = [items EXCEPT ![q][PutSlot(q)] = titem[t]]
       /\ live' = [live EXCEPT ![q] = @ \cup {PutSlot(q)}]
       /\ tail' = [tail EXCEPT ![q] = RingNext(q, tail[q])]
    /\ pc' = [pc EXCEPT ![t] = "put_commit"]
    /\ UNCHANGED <<cfgVars, tfail, modVars, drvVars, ctxVars, capacity, count, head, qlock,
                   registered, signaled, titem, got, logVars, harnessVars>>

\* put: count++; signal not_empty; unlock; return NULL.
PutCommit(t) ==
    /\ pc[t] = "put_commit"
    /\ LET q == PutChan(t) IN
       /\ count' = [count EXCEPT ![q] = @ + 1]
       /\ signaled' = monitor_signal_flag(<<q, "not_empty">>)
       /\ qlock' = [qlock EXCEPT ![q] = NoThread]
       /\ pc' = [CondBroadcast(<<q, "not_empty">>, pc) EXCEPT ![t] = AfterPut(t)]
    /\ UNCHANGED <<cfgVars, tfail, modVars, drvVars, ctxVars, capacity, items, head, tail, live,
                   registered, titem, got, logVars, harnessVars>>

\* The gates after a get found the ring empty, were get to signal not_full
\* on that path too.
GetRetrySignalsNotFull(q) ==
    [monitor_reset_flag(<<q, "not_empty">>) EXCEPT ![<<q, "not_full">>] = TRUE]

\* get, the path on which count is 0: monitor_reset(not_empty) and nothing
\* else before the unlock and the wait.
GetRetryGates(q) == monitor_reset_flag(<<q, "not_empty">>)

\* get: lock; if (count > 0) take; else { reset not_empty; unlock; wait }.
GetLock(t) ==
    /\ pc[t] = "get_lock"
    /\ LET q == GetChan(t) IN
       /\ qlock[q] = NoThread
       /\ IF GetHasItem(q)
          THEN /\ qlock' = [qlock EXCEPT ![q] = t]
               /\ pc' = [pc EXCEPT ![t] = "get_take"]
               /\ UNCHANGED signaled
          ELSE /\ signaled' = GetRetryGates(q)
               /\ pc' = [pc EXCEPT ![t] = "get_wait"]
               /\ qlock' = UnlockBeforeWait(q, t)
    /\ UNCHANGED <<cfgVars, tfail, modVars, drvVars, ctxVars, ringVars, registered, titem, got,
                   logVars, harnessVars>>

\* get: s = items[head]; head = (head + 1) % capacity.
GetTake(t) ==
    /\ pc[t] = "get_take"
    /\ LET q == GetChan(t) IN
       /\ got' = [got EXCEPT ![t] = items[q][GetSlot(q)]]
       /\ live' = [live EXCEPT ![q] = @ \ {GetSlot(q)}]
       /\ head' = [head EXCEPT ![q] = RingNext(q, head[q])]
    /\ pc' = [pc EXCEPT ![t] = "get_commit"]
    /\ UNCHANGED <<cfgVars, tfail, modVars, drvVars, ctxVars, capacity, items, count, tail,
                   qlock, registered, signaled, titem, logVars, harnessVars>>

\* get: count--; signal not_full; unlock; return s.
GetCommit(t) ==
    /\ pc[t] = "get_commit"
    /\ LET q == GetChan(t) IN
       /\ count' = [count EXCEPT ![q] = @ - 1]
       /\ signaled' = monitor_signal_flag(<<q, "not_full">>)
       /\ qlock' = [qlock EXCEPT ![q] = NoThread]
       /\ pc' = [CondBroadcast(<<q, "not_full">>, pc) EXCEPT ![t] = AfterGet(t)]
       /\ getlog' = [getlog EXCEPT ![q] = Append(@, got[t])]
    /\ UNCHANGED <<cfgVars, tfail, modVars, drvVars, ctxVars, capacity, items, head, tail, live,
                   registered, titem, got, putlog, tlog, out, harnessVars>>

(* ---------------------------- monitor_wait ---------------------------- *)
\* teardown's first loop after stage i, were it to stop after stage 0.
AwaitOnlyFirst(i) == FALSE

\* teardown's first loop `for (i = 0; i < n; ++i)`: after stage i another
\* stage is awaited.
AwaitNext(i) == i + 1 < n

\* The return of monitor_wait to its call site.
WaitReturn(t) ==
    CASE pc[t] \in PutLabels ->
           /\ pc' = [pc EXCEPT ![t] = "put_lock"]
           /\ UNCHANGED <<dk, mret>>
      [] pc[t] \in GetLabels ->
           /\ pc' = [pc EXCEPT ![t] = "get_lock"]
           /\ UNCHANGED <<dk, mret>>
      [] pc[t] \in FinLabels ->
           \* teardown: next stage to await, or the reverse fini loop
           /\ IF AwaitNext(dk)
              THEN /\ dk' = dk + 1
                   /\ pc' = [pc EXCEPT ![t] = "fin_wait"]
              ELSE /\ dk' = n - 1
                   /\ pc' = [pc EXCEPT ![t] = "d_fini"]
           /\ UNCHANGED mret
      [] pc[t] \in MonLabels ->
           /\ pc' = [pc EXCEPT ![t] = "m_idle"]
           /\ mret' = [mret EXCEPT ![t] = @ + 1]
           /\ UNCHANGED dk

\* monitor_wait: lock; while (!signaled) pthread_cond_wait; unlock; return 0.
MonitorWait(t) ==
    /\ pc[t] \in WaitLabels \cup WokeLabels
    /\ IF (pc[t] \in WaitLabels /\ WaitPasses(GateAt(t)))
          \/ (pc[t] \in WokeLabels /\ WaitRecheck(GateAt(t)))
       THEN WaitReturn(t)
       ELSE /\ pc' = [pc EXCEPT ![t] = Blocked(pc[t])]
            /\ UNCHANGED <<dk, mret>>
    /\ UNCHANGED <<cfgVars, tfail, modVars, fed, exitcode, ctxVars, chanVars, signaled, titem,
                   got, logVars, nsig, nrst, lastop, bcast, pquota, cquota>>

\* A spurious wakeup: pthread_cond_wait may return without a broadcast.
SpuriousWake(t) ==
    /\ pc[t] \in CWaitLabels
    /\ pc' = [pc EXCEPT ![t] = Woken(pc[t])]
    /\ UNCHANGED <<cfgVars, tfail, modVars, drvVars, ctxVars, chanVars, signaled, titem, got,
                   logVars, harnessVars>>

(* ------------------------------- worker ------------------------------- *)
\* plugin_place_work: the two guards before consumer_producer_put.
PlaceWorkOk(q) == initialized[q] /\ registered[q]

AfterGetFailsReturns == "w_exited"

\* plugin_consumer_thread, `if (!in) { log_error; break; }`: the code after
\* the loop runs.
AfterGetFails == "w_finish"

\* plugin_consumer_thread, after get returned `in`: NULL ends the loop; the
\* <END> branch; or transform and forward.
WorkerHave(t) ==
    /\ pc[t] = "w_have"
    /\ LET i == StageOf(t)
           in == got[t]
           nxt == next_place_work[i]
           res == plugin_transform(kinds[i + 1], in)
       IN
       IF in = Null
       THEN /\ pc' = [pc EXCEPT ![t] = AfterGetFails]
            /\ UNCHANGED <<titem, putlog, tlog, out>>
       ELSE IF IsShutdownMarker(in)
       THEN /\ IF nxt # NoStage /\ PlaceWorkOk(nxt)
               THEN /\ CallPut(t, nxt, END)
                    /\ pc' = [pc EXCEPT ![t] = "put_lock"]
               ELSE /\ pc' = [pc EXCEPT ![t] = "w_finish"]
                    /\ UNCHANGED <<titem, putlog>>
            /\ UNCHANGED <<tlog, out>>
       ELSE /\ tlog' = [tlog EXCEPT ![i] = Append(@, in)]
            /\ out' = out \o Emission(kinds[i + 1], in)
            /\ IF nxt # NoStage /\ PlaceWorkOk(nxt)
               THEN /\ CallPut(t, nxt, res)
                    /\ pc' = [pc EXCEPT ![t] = "put_lock"]
               ELSE /\ pc' = [pc EXCEPT ![t] = "get_lock"]
                    /\ UNCHANGED <<titem, putlog>>
    /\ UNCHANGED <<cfgVars, tfail, modVars, drvVars, ctxVars, chanVars, signaled, got, getlog,
                   harnessVars>>

\* The gate consumer_producer_signal_finished would signal, were it to wake
\* the consumers of the queue.
FinishedGateNotEmpty(q) == <<q, "not_empty">>

\* consumer_producer_signal_finished: monitor_signal(&q->finished_monitor).
FinishedGate(q) == <<q, "finished">>

\* plugin_consumer_thread, after the loop: finished = 1; signal_finished.
WorkerFinish(t) ==
    /\ pc[t] = "w_finish"
    /\ LET i == StageOf(t) IN
       /\ finished' = [finished EXCEPT ![i] = TRUE]
       /\ signaled' = monitor_signal_flag(FinishedGate(i))
       /\ pc' = [CondBroadcast(FinishedGate(i), pc) EXCEPT ![t] = "w_exited"]
    /\ UNCHANGED <<cfgVars, tfail, modVars, drvVars, initialized, next_place_work, chanVars,
                   titem, got, logVars, harnessVars>>

(* ------------------------------- driver ------------------------------- *)
\* exit(): the process ends, and with it every worker that is still running.
ExitKills(p) ==
    [t \in Threads |->
        IF t \in Workers /\ p[t] \notin {"off", "w_joined"} THEN "w_killed"
        ELSE p[t]]

\* step2_load_or_exit, one iteration: load_plugin opens the module of stage
\* dk and resolves its five entry points.
DrvLoad ==
    /\ pc[Drv] = "d_load"
    /\ handle' = [handle EXCEPT ![dk] = "open"]
    /\ IF dk + 1 < n
       THEN /\ dk' = dk + 1
            /\ UNCHANGED pc
       ELSE /\ dk' = 0
            /\ pc' = [pc EXCEPT ![Drv] = "d_init"]
    /\ UNCHANGED <<cfgVars, tfail, fed, exitcode, ctxVars, chanVars, signaled, titem,
                   got, logVars, harnessVars, errmsg>>

\* load_plugin of stage dk fails, in dlopen / dlmopen or in one of the five
\* dlsym: print_error_and_exit(1, ...) at once.
DrvLoadFail ==
    /\ pc[Drv] = "d_load"
    /\ \E opened \in BOOLEAN :
          handle' = [handle EXCEPT ![dk] = IF opened THEN "open" ELSE "none"]
    /\ errmsg' = "Step 2: Load Plugin Shared Objects failed"
    /\ exitcode' = 1
    /\ pc' = [ExitKills(pc) EXCEPT ![Drv] = "d_done"]
    /\ UNCHANGED <<cfgVars, tfail, dk, fed, ctxVars, chanVars, signaled, titem, got,
                   logVars, harnessVars>>

AfterInitSkipsWire == "d_feed"

\* main, the step after init_plugin: wire_plugins, whose loop has no
\* iteration when there is one stage; then feed_input.
AfterInit == IF n > 1 THEN "d_wire" ELSE "d_feed"

\* init_plugin, one iteration: plugin_init(queue_size) of stage dk, which is
\* common_plugin_init: consumer_producer_init, then pthread_create.
DrvInit ==
    /\ pc[Drv] = "d_init"
    /\ ~initialized[dk]
    /\ capacity' = [capacity EXCEPT ![dk] = queue_size]
    /\ items' = [items EXCEPT ![dk] = EmptyRing(queue_size)]
    /\ count' = [count EXCEPT ![dk] = 0]
    /\ head' = [head EXCEPT ![dk] = 0]
    /\ tail' = [tail EXCEPT ![dk] = 0]
    /\ signaled' = [g \in Gates |->
                      IF g[1] = dk /\ g[2] \in GateNames THEN FALSE
                      ELSE signaled[g]]
    /\ registered' = [registered EXCEPT ![dk] = TRUE]
    /\ next_place_work' = [next_place_work EXCEPT ![dk] = NoStage]
    /\ finished' = [finished EXCEPT ![dk] = FALSE]
    /\ initialized' = [initialized EXCEPT ![dk] = TRUE]
    /\ IF dk + 1 < n
       THEN /\ dk' = dk + 1
            /\ pc' = [pc EXCEPT ![Wrk(dk)] = "get_lock"]
       ELSE /\ dk' = 0
            /\ pc' = [pc EXCEPT ![Wrk(dk)] = "get_lock",
                                ![Drv] = AfterInit]
    /\ UNCHANGED <<cfgVars, tfail, modVars, fed, exitcode, live, qlock, titem, got, logVars,
                   harnessVars>>

\* init_plugin, one iteration in which plugin_init of stage dk returns an
\* error: common_plugin_init leaves the context as it found it.
DrvInitFail ==
    /\ pc[Drv] = "d_init"
    /\ pc' = [pc EXCEPT ![Drv] = "d_rollback"]
    /\ UNCHANGED <<cfgVars, tfail, modVars, drvVars, ctxVars, chanVars, signaled, titem, got,
                   logVars, harnessVars>>

\* init_plugin, the rollback loop `for (j = i; j >= 0; --j)`, one iteration:
\* plugin_fini of stage dk returns an error when the stage is not
\* initialized, else it joins the worker and destroys the queue; then the
\* module is closed; after stage 0 the modules of the later stages are closed
\* and the driver exits with code 2.
DrvRollback ==
    /\ pc[Drv] = "d_rollback"
    /\ IF initialized[dk]
       THEN /\ pc[Wrk(dk)] = "w_exited"
            /\ qlock[dk] = NoThread
            /\ live' = [live EXCEPT ![dk] = {}]
            /\ items' = [items EXCEPT ![dk] = <<>>]
            /\ capacity' = [capacity EXCEPT ![dk] = 0]
            /\ count' = [count EXCEPT ![dk] = 0]
            /\ head' = [head EXCEPT ![dk] = 0]
            /\ tail' = [tail EXCEPT ![dk] = 0]
            /\ registered' = [registered EXCEPT ![dk] = FALSE]
            /\ next_place_work' = [next_place_work EXCEPT ![dk] = NoStage]
            /\ initialized' = [initialized EXCEPT ![dk] = FALSE]
       ELSE UNCHANGED <<ringVars, registered, next_place_work, initialized>>
    /\ LET p1 == IF initialized[dk] THEN [pc EXCEPT ![Wrk(dk)] = "w_joined"]
                 ELSE pc
       IN IF dk > 0
          THEN /\ dk' = dk - 1
               /\ pc' = p1
               /\ UNCHANGED exitcode
               /\ handle' = [handle EXCEPT ![dk] = "closed"]
               /\ UNCHANGED errmsg
          ELSE /\ dk' = 0
               /\ pc' = [ExitKills(p1) EXCEPT ![Drv] = "d_done"]
               /\ exitcode' = 2
               /\ handle' = [i \in Stages |->
                                IF handle[i] = "open" THEN "closed" ELSE handle[i]]
               /\ errmsg' = "plugin_init error"
    /\ UNCHANGED <<cfgVars, tfail, fed, finished, qlock, signaled, titem, got, logVars,
                   harnessVars>>

plugin_attach_ignored(i, f) == next_place_work

\* plugin_attach: global_plugin_context.next_place_work = next_place_work.
plugin_attach(i, f) == [next_place_work EXCEPT ![i] = f]

\* wire_plugins, one iteration: p[i].attach(p[i + 1].place_work).
DrvWire ==
    /\ pc[Drv] = "d_wire"
    /\ dk + 1 < n
    /\ next_place_work' = plugin_attach(dk, dk + 1)
    /\ IF dk + 2 < n
       THEN /\ dk' = dk + 1
            /\ UNCHANGED pc
       ELSE /\ dk' = 0
            /\ pc' = [pc EXCEPT ![Drv] = "d_feed"]
    /\ UNCHANGED <<cfgVars, tfail, modVars, fed, exitcode, initialized, finished, chanVars,
                   signaled, titem, got, logVars, harnessVars>>

\* feed_input, one iteration: fgets a line and place it in the first stage;
\* the line <END> is placed and ends the loop, and so does end of file.
DrvFeedLine(line) ==
    /\ pc[Drv] = "d_feed"
    /\ fed' = Append(fed, line)
    /\ IF PlaceWorkOk(0)
       THEN /\ CallPut(Drv, 0, line)
            /\ pc' = [pc EXCEPT ![Drv] = "put_lock"]
            /\ UNCHANGED exitcode
       ELSE /\ pc' = [ExitKills(pc) EXCEPT ![Drv] = "d_done"]
            /\ exitcode' = 1
            /\ UNCHANGED <<titem, putlog>>
    /\ errmsg' = IF PlaceWorkOk(0) THEN errmsg ELSE "place_work error"
    /\ UNCHANGED <<cfgVars, tfail, handle, dk, ctxVars, chanVars, signaled, got, getlog, tlog,
                   out, harnessVars>>

DrvFeed ==
    \E line \in InputLines :
        /\ Len(fed) < MaxLines
        /\ DrvFeedLine(line)

DrvFeedEnd == DrvFeedLine(END)

\* feed_input: fgets fails with a read error; `if (ferror(stdin))` exits
\* with code 1.
DrvFeedReadError ==
    /\ pc[Drv] = "d_feed"
    /\ pc' = [ExitKills(pc) EXCEPT ![Drv] = "d_done"]
    /\ exitcode' = 1
    /\ errmsg' = "stdin read error"
    /\ UNCHANGED <<cfgVars, tfail, handle, dk, fed, ctxVars, chanVars, signaled, titem, got,
                   logVars, harnessVars>>

\* feed_input: fgets returns NULL at end of file, without an error.
DrvFeedEof ==
    /\ pc[Drv] = "d_feed"
    /\ pc' = [pc EXCEPT ![Drv] = "fin_wait"]
    /\ UNCHANGED <<cfgVars, tfail, modVars, drvVars, ctxVars, chanVars, signaled, titem, got,
                   logVars, harnessVars>>

\* teardown, first loop: plugin_wait_finished of stage dk returns an error
\* (monitor_wait fails in pthread_mutex_lock): print_error_and_exit(1, ...)
\* at once.
DrvWaitFinishedFail ==
    /\ pc[Drv] = "fin_wait"
    /\ errmsg' = "plugin_wait_finished error"
    /\ exitcode' = 1
    /\ pc' = [ExitKills(pc) EXCEPT ![Drv] = "d_done"]
    /\ UNCHANGED <<cfgVars, tfail, handle, dk, fed, ctxVars, chanVars, signaled, titem,
                   got, logVars, harnessVars>>

\* teardown, reverse loop: plugin_fini of stage dk returns an error
\* (pthread_join fails; the context is left as it was):
\* print_error_and_exit(1, ...) at once.
DrvFiniFail ==
    /\ pc[Drv] = "d_fini"
    /\ errmsg' = "plugin_fini error"
    /\ exitcode' = 1
    /\ pc' = [ExitKills(pc) EXCEPT ![Drv] = "d_done"]
    /\ UNCHANGED <<cfgVars, tfail, handle, dk, fed, ctxVars, chanVars, signaled, titem,
                   got, logVars, harnessVars>>

\* teardown, reverse loop, one iteration, first half: plugin_fini of stage
\* dk, which joins the worker and destroys and frees the queue.
DrvFini ==
    /\ pc[Drv] = "d_fini"
    /\ initialized[dk]
    /\ pc[Wrk(dk)] = "w_exited"
    /\ qlock[dk] = NoThread
    /\ live' = [live EXCEPT ![dk] = {}]
    /\ items' = [items EXCEPT ![dk] = <<>>]
    /\ capacity' = [capacity EXCEPT ![dk] = 0]
    /\ count' = [count EXCEPT ![dk] = 0]
    /\ head' = [head EXCEPT ![dk] = 0]
    /\ tail' = [tail EXCEPT ![dk] = 0]
    /\ registered' = [registered EXCEPT ![dk] = FALSE]
    /\ next_place_work' = [next_place_work EXCEPT ![dk] = NoStage]
    /\ initialized' = [initialized EXCEPT ![dk] = FALSE]
    /\ pc' = [pc EXCEPT ![Wrk(dk)] = "w_joined", ![Drv] = "d_close"]
    /\ UNCHANGED <<cfgVars, tfail, modVars, dk, fed, exitcode, finished, qlock, signaled,
                   titem, got, logVars, harnessVars>>

\* teardown's reverse loop after stage i, were it to leave out stage 0.
FiniSkipsFirst(i) == i > 1

\* teardown's reverse loop `for (i = n - 1; i >= 0; --i)`: after stage i
\* another stage is finalized.
FiniNext(i) == i > 0

\* teardown, reverse loop, one iteration, second half: dlclose(p[i].handle)
\* and free(p[i].name), then the next stage down or the return to main.
DrvClose ==
    /\ pc[Drv] = "d_close"
    /\ handle' = [handle EXCEPT ![dk] = "closed"]
    /\ IF FiniNext(dk)
       THEN /\ dk' = dk - 1
            /\ pc' = [pc EXCEPT ![Drv] = "d_fini"]
       ELSE /\ dk' = 0
            /\ pc' = [pc EXCEPT ![Drv] = "d_exit"]
    /\ UNCHANGED <<cfgVars, tfail, fed, exitcode, ctxVars, chanVars, signaled, titem,
                   got, logVars, harnessVars, errmsg>>

\* main, after teardown: printf("Pipeline shutdown complete\n"); return 0.
DrvExit ==
    /\ pc[Drv] = "d_exit"
    /\ out' = Append(out, <<"main", <<"Pipeline shutdown complete">> >>)
    /\ exitcode' = 0
    /\ pc' = [pc EXCEPT ![Drv] = "d_done"]
    /\ UNCHANGED <<cfgVars, tfail, modVars, dk, fed, ctxVars, chanVars, signaled, titem, got,
                   putlog, getlog, tlog, harnessVars>>

(* ------------------------- pipeline specification --------------------- *)
PipeThreads == {Drv} \cup Workers

Put(t) == PutLock(t) \/ PutStore(t) \/ PutCommit(t)
Get(t) == GetLock(t) \/ GetTake(t) \/ GetCommit(t)

Driver == DrvInit \/ DrvWire \/ DrvFeed \/ DrvFeedEnd \/ DrvFeedEof
             \/ DrvFini \/ DrvExit
             \/ DrvInitFail \/ DrvRollback \/ DrvFeedReadError
             \/ DrvLoad \/ DrvLoadFail \/ DrvClose
             \/ DrvWaitFinishedFail \/ DrvFiniFail

\* The steps thread t takes by itself (a spurious wakeup is not one).
Step(t) ==
    \/ Put(t) \/ Get(t) \/ MonitorWait(t)
    \/ WorkerHave(t) \/ WorkerFinish(t)
    \/ (t = Drv /\ Driver)

Next ==
    \/ Driver
    \/ \E t \in PipeThreads : PutLock(t)
    \/ \E t \in PipeThreads : PutStore(t)
    \/ \E t \in PipeThreads : PutCommit(t)
    \/ \E t \in PipeThreads : GetLock(t)
    \/ \E t \in PipeThreads : GetTake(t)
    \/ \E t \in PipeThreads : GetCommit(t)
    \/ \E t \in PipeThreads : MonitorWait(t)
    \/ \E t \in PipeThreads : SpuriousWake(t)
    \/ \E t \in PipeThreads : WorkerHave(t)
    \/ \E t \in PipeThreads : WorkerFinish(t)

Spec == Init /\ [][Next]_vars

\* Every thread that can take a step eventually takes one.
FairSpec == Spec /\ \A t \in PipeThreads : WF_vars(Step(t))

(* ------------- the pipeline with failing calls in the workers ---------- *)
\* What a transform has written to stdout when its allocation fails: logger
\* and typewriter print the line before strdup, the others allocate first.
FailEmission(kind, s) ==
    IF kind \in {"logger", "typewriter"} THEN Emission(kind, s) ELSE <<>>

AfterTransformFailsBreak == "w_finish"

\* plugin_consumer_thread, `if (!out) { log_error; free(in); continue; }`.
AfterTransformFails == "get_lock"

\* plugin_consumer_thread: process_function returns NULL (malloc or strdup
\* failed) for a line that is not <END>.
TransformFails(t) ==
    /\ pc[t] = "w_have"
    /\ got[t] # Null
    /\ ~IsShutdownMarker(got[t])
    /\ LET i == StageOf(t) IN
       /\ tfail' = [tfail EXCEPT ![i] = Append(@, got[t])]
       /\ out' = out \o FailEmission(kinds[i + 1], got[t])
    /\ pc' = [pc EXCEPT ![t] = AfterTransformFails]
    /\ UNCHANGED <<cfgVars, modVars, drvVars, ctxVars, chanVars, signaled, titem, got,
                   putlog, getlog, tlog, harnessVars>>

\* consumer_producer_get: monitor_wait(not_empty) returns nonzero and get
\* returns NULL.
GetWaitFails(t) ==
    /\ pc[t] \in GetLabels
    /\ got' = [got EXCEPT ![t] = Null]
    /\ pc' = [pc EXCEPT ![t] = AfterGet(t)]
    /\ UNCHANGED <<cfgVars, tfail, modVars, drvVars, ctxVars, chanVars, signaled, titem,
                   logVars, harnessVars>>

\* consumer_producer_put: monitor_wait(not_full) returns nonzero and put
\* returns "wait(not_full) failed"; the worker logs the error of its forward
\* and goes on as after a forward that succeeded.
PutWaitFails(t) ==
    /\ pc[t] \in PutLabels
    /\ pc' = [pc EXCEPT ![t] = AfterPut(t)]
    /\ UNCHANGED <<cfgVars, tfail, modVars, drvVars, ctxVars, chanVars, signaled, titem,
                   got, logVars, harnessVars>>

NextFault ==
    \/ Next
    \/ \E t \in Workers : TransformFails(t)
    \/ \E t \in Workers : GetWaitFails(t)
    \/ \E t \in Workers : PutWaitFails(t)

SpecFault == Init /\ [][NextFault]_vars

(* --------------------- one queue, producer and consumer --------------- *)
\* The state after consumer_producer_init(&q, cap) of queue 0, with a
\* producer thread that will call put pquota times and a consumer thread
\* that will call get cquota times.
InitChan ==
    /\ InitCommon
    /\ argv1 = <<>>
    /\ kinds = <<>>
    /\ n = 0
    /\ queue_size \in 1..MaxCap
    /\ capacity = [q \in Stages |-> IF q = 0 THEN queue_size ELSE 0]
    /\ items = [q \in Stages |-> IF q = 0 THEN EmptyRing(queue_size) ELSE <<>>]
    /\ registered = [q \in Stages |-> q = 0]
    /\ pc = [t \in Threads |->
               IF t = Prod THEN "p_idle" ELSE IF t = Cons THEN "c_idle" ELSE "off"]
    /\ pquota \in 0..MaxItems
    /\ cquota \in 0..MaxItems

\* The producer calls consumer_producer_put(&q, item).
ProdCall ==
    /\ pc[Prod] = "p_idle"
    /\ Len(putlog[0]) < pquota
    /\ \E item \in ChanItems : CallPut(Prod, 0, item)
    /\ pc' = [pc EXCEPT ![Prod] = "put_lock"]
    /\ UNCHANGED <<cfgVars, tfail, modVars, drvVars, ctxVars, chanVars, signaled, got, getlog,
                   tlog, out, harnessVars>>

\* The consumer calls consumer_producer_get(&q).
ConsCall ==
    /\ pc[Cons] = "c_idle"
    /\ Len(getlog[0]) < cquota
    /\ pc' = [pc EXCEPT ![Cons] = "get_lock"]
    /\ UNCHANGED <<cfgVars, tfail, modVars, drvVars, ctxVars, chanVars, signaled, titem, got,
                   logVars, harnessVars>>

ChanThreads == {Prod, Cons}

StepChan(t) ==
    \/ Put(t) \/ Get(t) \/ MonitorWait(t)
    \/ (t = Prod /\ ProdCall)
    \/ (t = Cons /\ ConsCall)

NextChan ==
    \/ ProdCall
    \/ ConsCall
    \/ \E t \in ChanThreads : PutLock(t)
    \/ \E t \in ChanThreads : PutStore(t)
    \/ \E t \in ChanThreads : PutCommit(t)
    \/ \E t \in ChanThreads : GetLock(t)
    \/ \E t \in ChanThreads : GetTake(t)
    \/ \E t \in ChanThreads : GetCommit(t)
    \/ \E t \in ChanThreads : MonitorWait(t)
    \/ \E t \in ChanThreads : SpuriousWake(t)

SpecChan == InitChan /\ [][NextChan]_vars

FairSpecChan == SpecChan /\ \A t \in ChanThreads : WF_vars(StepChan(t))

(* ------------------- one monitor, waiters and a controller ------------ *)
\* The state after monitor_init(&m), with NumWaiters threads that call
\* monitor_wait and a controller thread that calls monitor_signal and
\* monitor_reset.
InitGate ==
    /\ InitCommon
    /\ argv1 = <<>>
    /\ kinds = <<>>
    /\ n = 0
    /\ queue_size = 0
    /\ capacity = [q \in Stages |-> 0]
    /\ items = [q \in Stages |-> <<>>]
    /\ registered = [q \in Stages |-> FALSE]
    /\ pc = [t \in Threads |->
               IF t \in Waiters THEN "m_idle" ELSE IF t = Ctl THEN "ctl" ELSE "off"]
    /\ pquota = 0
    /\ cquota = 0

\* A waiter calls monitor_wait(&m).
WaiterCall(t) ==
    /\ pc[t] = "m_idle"
    /\ mret[t] < MaxWaits
    /\ pc' = [pc EXCEPT ![t] = "m_wait"]
    /\ UNCHANGED <<cfgVars, tfail, modVars, drvVars, ctxVars, chanVars, signaled, titem, got,
                   logVars, harnessVars>>

\* The controller calls monitor_signal(&m).
CtlSignal ==
    /\ pc[Ctl] = "ctl"
    /\ nsig + nrst < MaxGateOps
    /\ signaled' = monitor_signal_flag(TestGate)
    /\ pc' = CondBroadcast(TestGate, pc)
    /\ nsig' = nsig + 1
    /\ lastop' = "signal"
    /\ bcast' = LET k == Cardinality({t \in Waiters : pc[t] = "m_cwait"})
                IN IF k > bcast THEN k ELSE bcast
    /\ UNCHANGED <<cfgVars, tfail, modVars, drvVars, ctxVars, chanVars, titem, got, logVars,
                   nrst, mret, pquota, cquota>>

\* The controller calls monitor_reset(&m).
CtlReset ==
    /\ pc[Ctl] = "ctl"
    /\ nsig + nrst < MaxGateOps
    /\ signaled' = monitor_reset_flag(TestGate)
    /\ nrst' = nrst + 1
    /\ lastop' = "reset"
    /\ UNCHANGED <<cfgVars, tfail, modVars, drvVars, ctxVars, chanVars, pc, titem, got, logVars,
                   nsig, bcast, mret, pquota, cquota>>

StepGate(t) == WaiterCall(t) \/ MonitorWait(t)

NextGate ==
    \/ CtlSignal
    \/ CtlReset
    \/ \E t \in Waiters : WaiterCall(t)
    \/ \E t \in Waiters : MonitorWait(t)
    \/ \E t \in Waiters : SpuriousWake(t)

SpecGate == InitGate /\ [][NextGate]_vars

FairSpecGate == SpecGate /\ \A t \in Waiters : WF_vars(StepGate(t))

(* ------------- one queue, several producers and consumers ------------- *)
\* The string producer t puts: each producer has its own.
MItem(t) == <<LowerChars[t[2]]>>

\* The state after consumer_producer_init(&q, cap) of queue 0 and the
\* creation of NumPairs threads that call put once and NumPairs threads that
\* call get once.
InitMulti ==
    /\ InitCommon
    /\ argv1 = <<>>
    /\ kinds = <<>>
    /\ n = 0
    /\ queue_size \in 1..MaxCap
    /\ capacity = [q \in Stages |-> IF q = 0 THEN queue_size ELSE 0]
    /\ items = [q \in Stages |-> IF q = 0 THEN EmptyRing(queue_size) ELSE <<>>]
    /\ registered = [q \in Stages |-> q = 0]
    /\ pc = [t \in Threads |->
               IF t \in MProds THEN "mp_call"
               ELSE IF t \in MConss THEN "mc_call" ELSE "off"]
    /\ pquota = 0
    /\ cquota = 0

\* A producer thread starts: consumer_producer_put(q, item).
MProdCall(t) ==
    /\ pc[t] = "mp_call"
    /\ CallPut(t, 0, MItem(t))
    /\ pc' = [pc EXCEPT ![t] = "put_lock"]
    /\ UNCHANGED <<cfgVars, tfail, modVars, drvVars, ctxVars, chanVars, signaled, got, getlog,
                   tlog, out, harnessVars>>

\* A consumer thread starts: consumer_producer_get(q).
MConsCall(t) ==
    /\ pc[t] = "mc_call"
    /\ pc' = [pc EXCEPT ![t] = "get_lock"]
    /\ UNCHANGED <<cfgVars, tfail, modVars, drvVars, ctxVars, chanVars, signaled, titem, got,
                   logVars, harnessVars>>

MultiThreads == MProds \cup MConss

StepMulti(t) ==
    \/ Put(t) \/ Get(t) \/ MonitorWait(t)
    \/ MProdCall(t) \/ MConsCall(t)

NextMulti ==
    \/ \E t \in MProds : MProdCall(t)
    \/ \E t \in MConss : MConsCall(t)
    \/ \E t \in MultiThreads : PutLock(t)
    \/ \E t \in MultiThreads : PutStore(t)
    \/ \E t \in MultiThreads : PutCommit(t)
    \/ \E t \in MultiThreads : GetLock(t)
    \/ \E t \in MultiThreads : GetTake(t)
    \/ \E t \in MultiThreads : GetCommit(t)
    \/ \E t \in MultiThreads : MonitorWait(t)
    \/ \E t \in MultiThreads : SpuriousWake(t)

SpecMulti == InitMulti /\ [][NextMulti]_vars

FairSpecMulti == SpecMulti /\ \A t \in MultiThreads : WF_vars(StepMulti(t))

(* ============================== claims ================================ *)
Last(s) == s[Len(s)]

\* The driver has read and placed the terminator.
TerminatorFed == fed # <<>> /\ Last(fed) = END

\* The lines fed before the terminator.
FedLines == IF TerminatorFed THEN SubSeq(fed, 1, Len(fed) - 1) ELSE fed

\* The string that reaches stage i (0-based) for the input line s: s passed
\* through the transforms of the stages before i.
RECURSIVE Upstream(_, _)
Upstream(i, s) ==
    IF i = 0 THEN s ELSE plugin_transform(kinds[i], Upstream(i - 1, s))

\* What the transform of stage i is called with when no line is lost.
ExpectedInputs(i) == [k \in 1..Len(FedLines) |-> Upstream(i, FedLines[k])]

\* a is b with some elements left out (the order of a is the order of b).
RECURSIVE IsSubseq(_, _)
IsSubseq(a, b) ==
    IF a = <<>> THEN TRUE
    ELSE IF b = <<>> THEN FALSE
    ELSE IF a[1] = b[1] THEN IsSubseq(Tail(a), Tail(b))
    ELSE IsSubseq(a, Tail(b))

IsPrefix(a, b) == Len(a) <= Len(b) /\ a = SubSeq(b, 1, Len(a))

ShutdownComplete ==
    /\ pc[Drv] = "d_done"
    /\ exitcode = 0
    /\ \A i \in 0..(n - 1) : pc[Wrk(i)] = "w_joined" /\ signaled[<<i, "finished">>]

\* The driver exited with code 1 on an error of teardown.
TeardownFailed ==
    /\ pc[Drv] = "d_done"
    /\ exitcode = 1
    /\ errmsg \in {"plugin_wait_finished error", "plugin_fini error"}

\* C1: once the driver has placed <END> in the head stage, every stage's
\* finished gate is eventually signaled, every worker is joined and the
\* driver prints 'Pipeline shutdown complete', for every pipeline, queue size
\* and input (under fair scheduling, and unless wait_finished or fini itself
\* reports an error).
C1_ShutdownCompletes ==
    (TerminatorFed /\ pc[Drv] \notin {"put_lock", "put_store", "put_commit"} \cup PutLabels)
        ~> (ShutdownComplete \/ TeardownFailed)

\* C2: when the run has shut down after <END>, the transform of every stage
\* has been called exactly once for every line fed before <END>, in order.
C2_EveryLineEveryStage ==
    (TerminatorFed /\ pc[Drv] = "d_done" /\ exitcode = 0)
        => \A i \in 0..(n - 1) : tlog[i] = ExpectedInputs(i)

\* C3: in every stage the transform calls happen in the order in which the
\* driver fed the lines: the inputs a stage has transformed so far are, in
\* order, among the fed lines as they arrive at that stage.
C3_OrderPreserved ==
    \A i \in 0..(n - 1) : IsSubseq(tlog[i], ExpectedInputs(i))

C3_Witness ==
    /\ n >= 2
    /\ Len(tlog[n - 1]) >= 2
    /\ tlog[n - 1][1] # tlog[n - 1][2]

(* ----------------------------- the queue ------------------------------ *)
\* C4: with one producer and one consumer the strings returned by get are,
\* in order, the strings passed to put; when all of them have been taken
\* the two sequences are equal.
C4_Fifo ==
    /\ IsPrefix(getlog[0], putlog[0])
    /\ (count[0] = 0 /\ pc[Prod] = "p_idle" /\ pc[Cons] = "c_idle")
          => getlog[0] = putlog[0]

\* head and tail have wrapped around the ring and distinct strings came out.
C4_Witness ==
    /\ Len(getlog[0]) > capacity[0]
    /\ capacity[0] > 1
    /\ \E i, j \in 1..Len(getlog[0]) : getlog[0][i] # getlog[0][j]
    /\ getlog[0] = putlog[0]

LiveSlots(q) == { (head[q] + i) % capacity[q] : i \in 0..(count[q] - 1) }

RingConsistent(q) ==
    /\ 0 <= count[q] /\ count[q] <= capacity[q]
    /\ head[q] \in 0..(capacity[q] - 1)
    /\ tail[q] \in 0..(capacity[q] - 1)
    /\ tail[q] = (head[q] + count[q]) % capacity[q]
    /\ live[q] = LiveSlots(q)
    /\ \A i \in live[q] : items[q][i] # Null

\* C5: whenever no thread holds the queue mutex, 0 <= count <= capacity,
\* head and tail are in range, tail = (head + count) mod capacity and the
\* live slots are exactly head .. head+count-1; and the slot a put is about
\* to write is never live.
C5_RingInvariant ==
    /\ \A q \in Stages :
          (registered[q] /\ qlock[q] = NoThread) => RingConsistent(q)
    /\ \A t \in Threads :
          pc[t] = "put_store" => PutSlot(PutChan(t)) \notin live[PutChan(t)]

\* A full ring whose indices have wrapped, nobody in a critical section.
C5_Witness ==
    /\ registered[0] /\ qlock[0] = NoThread
    /\ count[0] = capacity[0]
    /\ head[0] # 0
    /\ Len(getlog[0]) >= 1

\* A put is in progress and has not yet taken the path that enqueues.
PutPending(t) == pc[t] \in {"put_lock"} \cup PutLabels

\* C9: a queue of capacity 1 with a producer of k puts and a consumer of k
\* gets: all the puts and all the gets complete (under fair scheduling).
C9_Capacity1NoDeadlock ==
    (queue_size = 1 /\ pquota = cquota)
        => <>(/\ Len(putlog[0]) = pquota /\ pc[Prod] = "p_idle"
              /\ Len(getlog[0]) = cquota /\ pc[Cons] = "c_idle")

C9_Witness ==
    /\ queue_size = 1 /\ pquota = MaxItems /\ cquota = MaxItems
    /\ Len(getlog[0]) = MaxItems /\ pc[Prod] = "p_idle" /\ pc[Cons] = "c_idle"

\* C10: while the ring is full a put that is in progress neither enqueues
\* nor returns; once a get has made room the put enqueues and returns.
C10_PutBlocksUntilRoom ==
    /\ [][(PutPending(Prod) /\ count[0] = capacity[0])
             => (PutPending(Prod)' /\ items' = items /\ tail' = tail)]_vars
    /\ ((PutPending(Prod) /\ count[0] < capacity[0]) ~> pc[Prod] = "p_idle")

\* The producer was blocked on a full ring, a get made room and the put
\* has returned.
C10_Witness ==
    /\ pc[Prod] = "p_idle"
    /\ Len(putlog[0]) > capacity[0]
    /\ Len(getlog[0]) + count[0] = Len(putlog[0])
    /\ Len(getlog[0]) >= 1

(* ----------------------------- the monitor ---------------------------- *)
InWait(t) == pc[t] \in MonLabels

\* C6: after a signal with no reset since, no thread is blocked in
\* monitor_wait: a wait that starts returns at its first test, and waits
\* keep returning.
C6_SignalRemembered ==
    [][\A t \in Waiters :
          /\ (lastop = "signal" /\ lastop' = "signal") => pc'[t] # "m_cwait"
          /\ (lastop = "signal" /\ pc[t] = "m_wait" /\ pc'[t] # pc[t])
                => (pc'[t] = "m_idle" /\ mret'[t] = mret[t] + 1)]_vars

\* One signal, no reset, and a waiter has returned from two waits.
C6_Witness ==
    /\ nsig = 1 /\ nrst = 0
    /\ \E t \in Waiters : mret[t] >= 2

\* C7: monitor_wait returns only when it has observed signaled = true, so
\* never after a reset that no signal has followed.
C7_WaitReturnsOnlySignaled ==
    [][\A t \in Waiters :
          mret'[t] # mret[t] => (signaled[TestGate] /\ lastop = "signal")]_vars

\* A wait that started after a signal and a reset is blocked.
C7_Witness ==
    /\ nsig >= 1 /\ lastop = "reset"
    /\ \E t \in Waiters : pc[t] = "m_cwait" /\ mret[t] >= 1

\* C8: a thread that is in monitor_wait when the gate is signaled returns,
\* unless a reset is issued (under fair scheduling).
C8_SignalReleasesAll ==
    \A t \in Waiters :
        (InWait(t) /\ lastop = "signal") ~> (~InWait(t) \/ lastop = "reset")

\* One signal found every waiter blocked, and every waiter has returned.
C8_Witness ==
    /\ bcast = NumWaiters
    /\ nsig = 1 /\ nrst = 0
    /\ \A t \in Waiters : mret[t] >= 1

(* ------------------------ the queue, continued ------------------------ *)
\* A get by thread t is in progress.
GetPending(t) == pc[t] \in {"get_lock", "get_take", "get_commit"} \cup GetLabels

\* C11: a get on an empty queue does not return while the queue is empty;
\* when a get returns, it returns the oldest string that was put and not
\* yet taken, never NULL; and a get in progress returns once a put has been
\* called for it (under fair scheduling).
C11_GetBlocksUntilPut ==
    /\ [][(GetPending(Cons) /\ count[0] = 0
              /\ pc[Cons] \notin {"get_take", "get_commit"})
             => GetPending(Cons)']_vars
    /\ [][(GetPending(Cons) /\ ~GetPending(Cons)')
             => (/\ got'[Cons] # Null
                 /\ Len(getlog'[0]) = Len(getlog[0]) + 1
                 /\ Len(getlog'[0]) <= Len(putlog[0])
                 /\ got'[Cons] = putlog[0][Len(getlog'[0])])]_vars
    /\ ((GetPending(Cons) /\ Len(putlog[0]) > Len(getlog[0]))
            ~> ~GetPending(Cons))

\* A get has returned the string that was put, and the next get has been
\* woken on the empty queue without an item being available.
C11_Witness ==
    /\ pc[Cons] = "get_woke"
    /\ count[0] = 0
    /\ Len(getlog[0]) >= 1
    /\ getlog[0] = putlog[0]

\* Every thread of the harness has returned from its put or its get.
MultiDone ==
    /\ \A t \in MProds : pc[t] = "p_idle"
    /\ \A t \in MConss : pc[t] = "c_idle"

\* Every consumer holds one of the strings put, no two the same one.
MultiDelivered ==
    /\ { got[t] : t \in MConss } = { MItem(t) : t \in MProds }
    /\ \A t, u \in MConss : got[t] = got[u] => t = u

\* C12: NumPairs producers of one put each and NumPairs consumers of one get
\* each: every thread terminates, every consumer has received exactly one of
\* the strings put, none twice and none lost, and the queue ends empty
\* (under fair scheduling).
C12_MultiProducersConsumers ==
    /\ <>(MultiDone /\ MultiDelivered /\ count[0] = 0 /\ live[0] = {})
    /\ [](MultiDone => (MultiDelivered /\ count[0] = 0))

\* All done with a queue smaller than the number of producers, so that a
\* producer had to wait for room.
C12_Witness ==
    /\ MultiDone /\ MultiDelivered
    /\ capacity[0] < NumPairs
    /\ getlog[0] # putlog[0]

(* ------------------------ shutdown of the stages ---------------------- *)
\* The string s occurs in the sequence q.
Occurs(s, q) == \E k \in 1..Len(q) : q[k] = s

\* The worker of stage i has returned from plugin_consumer_thread.
WorkerReturned(i) == pc[Wrk(i)] \in {"w_exited", "w_joined", "w_killed"}

InWaitFinished(i) == pc[Drv] \in FinLabels /\ dk = i

\* C14: wait_finished of a stage does not return (but with an error of the
\* wait itself, on which the driver exits) before the stage's worker has
\* called signal_finished, and it returns once the gate is signaled, also
\* when the signal came before the wait (under fair scheduling).
C14_WaitFinished ==
    /\ [][\A i \in Stages :
            (InWaitFinished(i) /\ ~InWaitFinished(i)' /\ exitcode' = -1)
               => (signaled[<<i, "finished">>] /\ pc[Wrk(i)] = "w_exited")]_vars
    /\ \A i \in Stages :
          (InWaitFinished(i) /\ signaled[<<i, "finished">>])
              ~> ~InWaitFinished(i)

\* wait_finished of stage 0 has returned and wait_finished of stage 1
\* starts after the gate of stage 1 was signaled.
C14_Witness ==
    /\ n >= 2 /\ dk = 1 /\ pc[Drv] = "fin_wait"
    /\ signaled[<<1, "finished">>]

\* The driver has read the terminator.
EndRead == Occurs(END, fed)

\* C15: every line the driver reads is placed in the head stage, and <END>
\* is the last line it reads and the last string it places: <END> is placed
\* once and nothing follows it.
C15_NothingAfterEnd ==
    /\ putlog[0] = fed
    /\ \A k \in 1..Len(fed) : fed[k] = END => k = Len(fed)
    /\ EndRead => pc[Drv] # "d_feed"

\* The driver read lines and then <END>, and the run has shut down.
C15_Witness ==
    /\ EndRead /\ Len(fed) >= 2
    /\ pc[Drv] = "d_done" /\ exitcode = 0

InPut(t) == pc[t] \in {"put_lock", "put_store", "put_commit"} \cup PutLabels

\* C16: no transform is called with <END> and nothing is written for it; a
\* worker that dequeued <END> places the literal <END> in the next stage,
\* if there is one, and leaves its loop: it calls get no more.
C16_EndNeverTransformed ==
    /\ \A i \in Stages : ~Occurs(END, tlog[i])
    /\ \A k \in 1..Len(out) : out[k][2] # END
    /\ \A i \in 0..(n - 1) :
          got[Wrk(i)] = END
            => /\ pc[Wrk(i)] \notin {"get_lock", "get_take"} \cup GetLabels
               /\ InPut(Wrk(i))
                     => (titem[Wrk(i)] = END /\ Last(putlog[i + 1]) = END)
               /\ (i + 1 < n /\ pc[Wrk(i)] \in {"w_finish", "w_exited", "w_joined"})
                     => Occurs(END, putlog[i + 1])

\* <END> went through a stage into a logger, which printed the line before
\* it and nothing for <END>.
C16_Witness ==
    /\ n >= 2 /\ kinds[n] = "logger"
    /\ Occurs(END, getlog[n - 1])
    /\ pc[Drv] = "d_done" /\ exitcode = 0
    /\ Len(out) = 2

(* --------------------------- error handling --------------------------- *)
\* C17: when plugin_init of a stage returns an error, the rollback calls
\* fini on the stages down to 0 and the process ends with exit code 2
\* (under fair scheduling).
C17_RollbackCompletes ==
    (pc[Drv] = "d_rollback") ~> (pc[Drv] = "d_done" /\ exitcode = 2)

\* No line read so far is turned into the string <END> by the transforms.
NoLineBecomesEnd ==
    \A k \in 1..Len(fed) : \A i \in 1..n :
        Upstream(i, fed[k]) = END => fed[k] = END

C19_EndOnlyAfterPredecessor ==
    \A i \in 1..(n - 1) :
        Occurs(END, getlog[i]) => Occurs(END, getlog[i - 1])

\* C20: when the driver exits with code 1 after a failure of place_work or a
\* read error on stdin, every worker has been joined and every queue
\* destroyed.
C20_ShutdownOnFeedError ==
    (pc[Drv] = "d_done" /\ exitcode = 1
        /\ errmsg \in {"stdin read error", "place_work error"})
        => \A i \in 0..(n - 1) : pc[Wrk(i)] = "w_joined" /\ ~registered[i]

(* ------------------------------ claims C21.. -------------------------- *)
\* C21: when wait_finished or fini of a stage reports an error during
\* teardown, the driver still awaits and finalizes every other stage before
\* it exits with code 1: at that exit no stage but the failing one is left
\* initialized, with its worker not joined.
C21_TeardownContinues ==
    TeardownFailed
        => \A i \in 0..(n - 1) :
               i # dk => (~initialized[i] /\ pc[Wrk(i)] = "w_joined")

\* The driver exited with code 1 on a failure of load_plugin.
LoadFailed ==
    /\ pc[Drv] = "d_done"
    /\ exitcode = 1
    /\ errmsg = "Step 2: Load Plugin Shared Objects failed"

\* C22: when the module of a stage cannot be opened or lacks an entry point,
\* the driver exits with code 1 with every module it opened before that
\* stage closed again, and with no stage's init invoked.
C22_LoadFailureClosesModules ==
    LoadFailed
        => /\ \A i \in 0..(dk - 1) : handle[i] = "closed"
           /\ \A i \in Stages : ~initialized[i] /\ pc[Wrk(i)] = "off"

\* plugin_fini of stage i has returned with success.
Finalized(i) == pc[Wrk(i)] = "w_joined"

\* The driver is in, or has left, init_plugin's rollback.
InRollback == pc[Drv] = "d_rollback" \/ exitcode = 2

\* C23: in teardown fini runs on the stages n-1, n-2, ..., 0 (a finalized
\* stage has every later stage finalized, and while the driver is in the
\* reverse loop at stage dk exactly the stages after dk are finalized and
\* closed); a module is closed only after its own fini returned; and the
\* driver is in the reverse loop only when the finished gate of every stage
\* is signaled, that is after wait_finished returned for every stage.
C23_TeardownOrder ==
    /\ \A i \in 0..(n - 1) : \A j \in (i + 1)..(n - 1) :
           Finalized(i) => Finalized(j)
    /\ ~InRollback =>
           \A i \in 0..(n - 1) : handle[i] = "closed" => Finalized(i)
    /\ pc[Drv] \in {"d_fini", "d_close"} =>
           \A j \in 0..(n - 1) :
               /\ Finalized(j) <=> (j > dk \/ (j = dk /\ pc[Drv] = "d_close"))
               /\ handle[j] = (IF j > dk THEN "closed" ELSE "open")
               /\ signaled[<<j, "finished">>]
    /\ \A i \in 0..(n - 1) :
           Finalized(i) => \A j \in 0..(n - 1) : signaled[<<j, "finished">>]

\* C23 witness: a pipeline of at least two stages in which the last stage is
\* finalized and closed and the driver has just finalized the stage before.
C23_Witness ==
    /\ n >= 2
    /\ pc[Drv] = "d_close"
    /\ dk = n - 2
    /\ handle[n - 1] = "closed"
    /\ Finalized(n - 1) /\ Finalized(n - 2)

\* The line main prints on stdout before it returns 0.
ShutdownLine == <<"main", <<"Pipeline shutdown complete">> >>

\* The positions of stdout that hold the shutdown line.
ShutdownPrinted == { k \in 1..Len(out) : out[k] = ShutdownLine }

\* C24: "Pipeline shutdown complete" is on stdout at most once; when it is
\* there it is the last output, every stage's worker has been joined, every
\* stage is finalized and closed and the exit code is 0; and a run that
\* exited with code 0 has printed it.
C24_ShutdownLineLast ==
    /\ Cardinality(ShutdownPrinted) <= 1
    /\ ShutdownPrinted # {} =>
           /\ ShutdownPrinted = {Len(out)}
           /\ exitcode = 0
           /\ pc[Drv] = "d_done"
           /\ \A i \in 0..(n - 1) :
                  Finalized(i) /\ ~initialized[i] /\ handle[i] = "closed"
    /\ exitcode = 0 => ShutdownPrinted # {}

\* C24 witness: a run that exited with code 0 after a stage wrote to stdout.
C24_Witness ==
    /\ exitcode = 0
    /\ Len(out) >= 2
    /\ out[1] # ShutdownLine
    /\ Last(out) = ShutdownLine

(* ------------- one queue, calls with valid and invalid arguments ------ *)
\* The capacities the harness passes to consumer_producer_init.
InitCaps == (-1)..MaxCap

\* consumer_producer_init: `if (!q || capacity < 1) return "invalid args"`.
InitArgsInvalid(cap) == cap < 1

\* consumer_producer_put's argument test, were it to accept a NULL item.
PutArgsAlwaysValid(item) == FALSE

\* consumer_producer_put: `if (!q || !item) return "invalid args"`.
PutArgsInvalid(item) == item = Null

\* A queue object before consumer_producer_init, with the capacity the
\* harness will pass in queue_size, and the two threads of the queue harness.
InitArgs ==
    /\ InitCommon
    /\ argv1 = <<>>
    /\ kinds = <<>>
    /\ n = 0
    /\ queue_size \in InitCaps
    /\ capacity = [q \in Stages |-> 0]
    /\ items = [q \in Stages |-> <<>>]
    /\ registered = [q \in Stages |-> FALSE]
    /\ pc = [t \in Threads |-> IF t = Prod THEN "a_init" ELSE "off"]
    /\ pquota \in 0..MaxItems
    /\ cquota \in 0..MaxItems

\* The harness calls consumer_producer_init(&q, queue_size): an invalid
\* capacity is rejected before the queue object is touched; else the ring,
\* the three monitors and the lock are set up and the two threads start.
ArgInitCall ==
    /\ pc[Prod] = "a_init"
    /\ IF InitArgsInvalid(queue_size)
       THEN /\ errmsg' = "invalid args"
            /\ pc' = [pc EXCEPT ![Prod] = "a_failed"]
            /\ UNCHANGED <<ringVars, registered, signaled>>
       ELSE /\ capacity' = [capacity EXCEPT ![0] = queue_size]
            /\ items' = [items EXCEPT ![0] = EmptyRing(queue_size)]
            /\ count' = [count EXCEPT ![0] = 0]
            /\ head' = [head EXCEPT ![0] = 0]
            /\ tail' = [tail EXCEPT ![0] = 0]
            /\ signaled' = [g \in Gates |->
                              IF g[1] = 0 /\ g[2] \in GateNames THEN FALSE
                              ELSE signaled[g]]
            /\ registered' = [registered EXCEPT ![0] = TRUE]
            /\ pc' = [pc EXCEPT ![Prod] = "p_idle", ![Cons] = "c_idle"]
            /\ UNCHANGED <<live, errmsg>>
    /\ UNCHANGED <<cfgVars, tfail, drvVars, ctxVars, qlock, titem, got, logVars,
                   harnessVars, handle>>

\* The producer calls consumer_producer_put(&q, item) with a string or with
\* NULL: NULL is rejected before the lock is looked up.
ArgProdCall ==
    /\ pc[Prod] = "p_idle"
    /\ Len(putlog[0]) < pquota
    /\ \E item \in ChanItems \cup {Null} :
          /\ CallPut(Prod, 0, item)
          /\ IF PutArgsInvalid(item)
             THEN /\ errmsg' = "invalid args"
                  /\ UNCHANGED pc
             ELSE /\ pc' = [pc EXCEPT ![Prod] = "put_lock"]
                  /\ UNCHANGED errmsg
    /\ UNCHANGED <<cfgVars, tfail, drvVars, ctxVars, chanVars, signaled, got, getlog,
                   tlog, out, harnessVars, handle>>

\* The consumer calls consumer_producer_get(&q) while strings are due.
ArgConsCall ==
    /\ pc[Cons] = "c_idle"
    /\ Len(getlog[0]) < cquota
    /\ pc' = [pc EXCEPT ![Cons] = "get_lock"]
    /\ UNCHANGED <<cfgVars, tfail, modVars, drvVars, ctxVars, chanVars, signaled,
                   titem, got, logVars, harnessVars>>

NextArgs ==
    \/ ArgInitCall
    \/ ArgProdCall
    \/ ArgConsCall
    \/ \E t \in ChanThreads : PutLock(t)
    \/ \E t \in ChanThreads : PutStore(t)
    \/ \E t \in ChanThreads : PutCommit(t)
    \/ \E t \in ChanThreads : GetLock(t)
    \/ \E t \in ChanThreads : GetTake(t)
    \/ \E t \in ChanThreads : GetCommit(t)
    \/ \E t \in ChanThreads : MonitorWait(t)
    \/ \E t \in ChanThreads : SpuriousWake(t)

SpecArgs == InitArgs /\ [][NextArgs]_vars

\* The step is a call of put with a NULL item.
PutNullCalled ==
    /\ Len(putlog'[0]) = Len(putlog[0]) + 1
    /\ Last(putlog'[0]) = Null

\* C25: consumer_producer_init with a capacity below 1 returns an error and
\* leaves the queue object as it was (and only a capacity of at least 1 sets
\* a queue up); consumer_producer_put with a NULL item returns an error and
\* leaves count, head, tail, the buffered items, the three gates and the
\* lock as they were, and the caller is back from the call.
C25_InvalidArgsRejected ==
    /\ [][ (pc[Prod] = "a_init" /\ pc'[Prod] # "a_init" /\ queue_size < 1)
             => /\ pc'[Prod] = "a_failed"
                /\ errmsg' = "invalid args"
                /\ UNCHANGED <<ringVars, registered, signaled, qlock>> ]_vars
    /\ [](registered[0] => queue_size >= 1 /\ capacity[0] = queue_size)
    /\ [][ PutNullCalled
             => /\ errmsg' = "invalid args"
                /\ pc'[Prod] = "p_idle"
                /\ UNCHANGED <<ringVars, registered, signaled, qlock>> ]_vars
    /\ [](\A q \in Stages : \A s \in DOMAIN items[q] :
              s \in live[q] => items[q][s] # Null)

\* C25 witness: put was called with NULL on a queue that holds a string, and
\* the error is reported.
C25_Witness ==
    /\ pc[Prod] = "p_idle"
    /\ putlog[0] # <<>> /\ Last(putlog[0]) = Null
    /\ errmsg = "invalid args"
    /\ count[0] >= 1

RECURSIVE EmissionsOf(_, _)
\* The number of stdout entries a stage of this kind writes for the inputs q.
EmissionsOf(kind, q) ==
    IF q = <<>> THEN 0
    ELSE Len(Emission(kind, Head(q))) + EmissionsOf(kind, Tail(q))

RECURSIVE EmittedBy(_)
\* The number of stdout entries stages 0..i-1 have written.
EmittedBy(i) ==
    IF i = 0 THEN 0
    ELSE EmittedBy(i - 1) + EmissionsOf(kinds[i], tlog[i - 1])

\* C26: a line is transformed by stage i only after stage i-1 has completed
\* its transform of it, output included: the inputs of stage i's transform
\* are a prefix of what it dequeued, that a prefix of what stage i-1 placed,
\* and the k-th string placed is the result of the k-th transform stage i-1
\* has completed (but for a forwarded <END>); and stdout holds one entry for
\* each completed transform of an emitting stage.
C26_StageOrderPerLine ==
    /\ \A i \in 1..(n - 1) :
          /\ IsPrefix(tlog[i], getlog[i])
          /\ IsPrefix(getlog[i], putlog[i])
          /\ \A k \in 1..Len(putlog[i]) :
                IF k <= Len(tlog[i - 1])
                THEN putlog[i][k] = plugin_transform(kinds[i], tlog[i - 1][k])
                ELSE k = Len(tlog[i - 1]) + 1 /\ putlog[i][k] = END
    /\ Len(SelectSeq(out, LAMBDA e : e # ShutdownLine)) = EmittedBy(n)

\* C26 witness: two logger stages, and the second has logged a line.
C26_Witness ==
    /\ kinds = <<"logger", "logger">>
    /\ Len(tlog[1]) >= 1
    /\ Len(out) >= 2

(* ---------------- one line through a chain of transforms -------------- *)
AllKinds == {"logger", "uppercaser", "rotator", "flipper", "expander",
             "typewriter"}
Chains == UNION { [1..k -> AllKinds] : k \in 1..MaxChain }
Hello == <<"h", "e", "l", "l", "o">>
ChainLines == { Hello, <<"a", "b">>, <<"x">> }

\* A pipeline of up to MaxChain stages of any kind, before the first line.
InitLine ==
    /\ InitCommon
    /\ argv1 = <<>>
    /\ kinds \in Chains
    /\ n = Len(kinds)
    /\ queue_size = 1
    /\ capacity = [q \in Stages |-> 0]
    /\ items = [q \in Stages |-> <<>>]
    /\ registered = [q \in Stages |-> FALSE]
    /\ pc = [t \in Threads |-> IF t = Drv THEN "l_feed" ELSE "off"]
    /\ pquota = 0
    /\ cquota = 0

\* feed_input reads one line and hands it to stage 0.
LineFeed ==
    /\ pc[Drv] = "l_feed"
    /\ \E line \in ChainLines :
          /\ fed' = <<line>>
          /\ titem' = [titem EXCEPT ![Drv] = line]
    /\ pc' = [pc EXCEPT ![Drv] = "l_stage"]
    /\ UNCHANGED <<cfgVars, tfail, modVars, dk, exitcode, ctxVars, chanVars, signaled,
                   got, logVars, harnessVars>>

\* Stage dk transforms the line: out = process_function(in), with what the
\* transform prints, and the result goes to the next stage.
LineStage ==
    /\ pc[Drv] = "l_stage"
    /\ out' = out \o Emission(kinds[dk + 1], titem[Drv])
    /\ titem' = [titem EXCEPT ![Drv] = plugin_transform(kinds[dk + 1], @)]
    /\ dk' = dk + 1
    /\ pc' = [pc EXCEPT ![Drv] = IF dk + 1 < n THEN "l_stage" ELSE "l_done"]
    /\ UNCHANGED <<cfgVars, tfail, modVars, fed, exitcode, ctxVars, chanVars, signaled,
                   got, putlog, getlog, tlog, harnessVars>>

NextLine == LineFeed \/ LineStage

SpecLine == InitLine /\ [][NextLine]_vars

\* The run of the README's example: uppercaser, rotator, logger on "hello".
ReadmeRun ==
    /\ kinds = <<"uppercaser", "rotator", "logger">>
    /\ fed = <<Hello>>
    /\ pc[Drv] = "l_done"

Digits == <<"0", "1", "2", "3", "4", "5", "6", "7", "8", "9">>
IsDigit(c) == \E i \in 1..10 : Digits[i] = c
DigitVal(c) == (CHOOSE i \in 1..10 : Digits[i] = c) - 1

RECURSIVE DecStr(_)
\* The decimal numeral of v >= 0.
DecStr(v) ==
    IF v < 10 THEN <<Digits[v + 1]>>
    ELSE Append(DecStr(v \div 10), Digits[(v % 10) + 1])

\* The values of argv[1] the harness tries: small numerals, signs, text that
\* is no numeral, INT_MAX and INT_MAX + 1, 2^32 and 2^32 + 1, LONG_MAX and
\* LONG_MAX + 1, and a numeral of twenty digits.
CliArgs ==
    { DecStr(v) : v \in 0..(MaxQueue + 1) }
    \cup { <<>>, <<"-", "1">>, <<"+", "2">>, <<"0", "2">>, <<"x">>,
           <<"2", "x">>, <<" ", "1">>, <<"1", " ">>, <<"-">>,
           <<"2", "1", "4", "7", "4", "8", "3", "6", "4", "7">>,
           <<"2", "1", "4", "7", "4", "8", "3", "6", "4", "8">>,
           <<"4", "2", "9", "4", "9", "6", "7", "2", "9", "6">>,
           <<"4", "2", "9", "4", "9", "6", "7", "2", "9", "7">>,
           <<"9", "2", "2", "3", "3", "7", "2", "0", "3", "6", "8", "5", "4",
             "7", "7", "5", "8", "0", "7">>,
           <<"9", "2", "2", "3", "3", "7", "2", "0", "3", "6", "8", "5", "4",
             "7", "7", "5", "8", "0", "8">>,
           <<"9", "9", "9", "9", "9", "9", "9", "9", "9", "9", "9", "9", "9",
             "9", "9", "9", "9", "9", "9", "9">> }

\* A 64-bit long of magnitude m, as four 16-bit limbs, least significant
\* first.
Limb == 65536
LongZero == <<0, 0, 0, 0>>
LONG_MAX == <<65535, 65535, 65535, 32767>>

\* x * 10 + d on the limbs; over when the result exceeds LONG_MAX.
MulAdd10(x, d) ==
    LET t1 == x[1] * 10 + d
        t2 == x[2] * 10 + (t1 \div Limb)
        t3 == x[3] * 10 + (t2 \div Limb)
        t4 == x[4] * 10 + (t3 \div Limb)
    IN [val |-> <<t1 % Limb, t2 % Limb, t3 % Limb, t4 % Limb>>,
        over |-> t4 >= 32768]

RECURSIVE SkipSpace(_, _)
SkipSpace(s, i) ==
    IF i <= Len(s) /\ s[i] = " " THEN SkipSpace(s, i + 1) ELSE i

RECURSIVE Accumulate(_, _, _, _)
\* strtol's digit loop from position i: the magnitude so far, whether it
\* went out of range, and the position of the first character not consumed.
Accumulate(s, i, x, sat) ==
    IF i > Len(s) \/ ~IsDigit(s[i])
    THEN [mag |-> IF sat THEN LONG_MAX ELSE x, end |-> i]
    ELSE LET r == MulAdd10(x, DigitVal(s[i]))
         IN Accumulate(s, i + 1, IF sat \/ r.over THEN x ELSE r.val,
                       sat \/ r.over)

\* strtol(s, &end, 10): white space, an optional sign, digits; without a
\* digit the result is 0 and end is the start of s; out of range the result
\* is LONG_MAX (LONG_MIN under a minus sign, here the same magnitude).
strtol(s) ==
    LET i0 == SkipSpace(s, 1)
        signed == i0 <= Len(s) /\ s[i0] \in {"+", "-"}
        i1 == IF signed THEN i0 + 1 ELSE i0
        acc == Accumulate(s, i1, LongZero, FALSE)
    IN IF acc.end = i1
       THEN [neg |-> FALSE, mag |-> LongZero, end |-> 1]
       ELSE [neg |-> signed /\ s[i0] = "-", mag |-> acc.mag, end |-> acc.end]

\* queue_size_value < 1.
LongBelowOne(v) == v.neg \/ v.mag = LongZero

\* (int)queue_size_value for a long >= 1: the low 32 bits, two's complement.
CastToInt(mag) ==
    IF mag[2] >= 32768 THEN mag[1] + Limb * (mag[2] - Limb)
    ELSE mag[1] + Limb * mag[2]

\* parse_command_line's test of argv[1].
QueueSizeRejected(s) ==
    LET v == strtol(s) IN v.end <= Len(s) \/ LongBelowOne(v)

\* main with some argv[1] and one or more stage names, before
\* parse_command_line.
InitCli ==
    /\ InitCommon
    /\ argv1 \in CliArgs
    /\ kinds \in Pipelines
    /\ n = Len(kinds)
    /\ queue_size = 0
    /\ capacity = [q \in Stages |-> 0]
    /\ items = [q \in Stages |-> <<>>]
    /\ registered = [q \in Stages |-> FALSE]
    /\ pc = [t \in Threads |-> IF t = Drv THEN "d_parse" ELSE "off"]
    /\ pquota = 0
    /\ cquota = 0

\* parse_command_line: strtol of argv[1]; a rest after the number or a value
\* below 1 is a usage error with exit code 1; else cfg->queue_size is the
\* value cast to int.
DrvParse ==
    /\ pc[Drv] = "d_parse"
    /\ IF QueueSizeRejected(argv1)
       THEN /\ errmsg' = "invalid queue size"
            /\ exitcode' = 1
            /\ pc' = [pc EXCEPT ![Drv] = "d_done"]
            /\ UNCHANGED queue_size
       ELSE /\ queue_size' = CastToInt(strtol(argv1).mag)
            /\ pc' = [pc EXCEPT ![Drv] = "d_load"]
            /\ UNCHANGED <<errmsg, exitcode>>
    /\ UNCHANGED <<n, kinds, argv1, tfail, dk, fed, ctxVars, chanVars, signaled, titem,
                   got, logVars, harnessVars, handle>>

\* init_plugin, first iteration: common_plugin_init returns
\* "queue_size must be > 0" for a queue size below 1.
CliInitFail == queue_size < 1 /\ DrvInitFail

NextCli == DrvParse \/ DrvLoad \/ DrvLoadFail \/ CliInitFail \/ DrvRollback

SpecCli == InitCli /\ [][NextCli]_vars

\* s is a numeral: white space, an optional sign and one or more digits.
IsNumeral(s) ==
    LET i0 == SkipSpace(s, 1)
        i1 == IF i0 <= Len(s) /\ s[i0] \in {"+", "-"} THEN i0 + 1 ELSE i0
    IN i1 <= Len(s) /\ \A i \in i1..Len(s) : IsDigit(s[i])

RECURSIVE StripZeros(_)
StripZeros(s) ==
    IF Len(s) > 1 /\ s[1] = "0" THEN StripZeros(Tail(s)) ELSE s

\* The numeral s without leading white space, plus sign and leading zeros.
Canonical(s) ==
    LET t == SubSeq(s, SkipSpace(s, 1), Len(s))
    IN StripZeros(IF t # <<>> /\ t[1] = "+" THEN Tail(t) ELSE t)

\* parse_command_line accepted argv[1].
QueueSizeAccepted == pc[Drv] # "d_parse" /\ errmsg # "invalid queue size"

\* C28: an accepted queue_size argument denotes an integer >= 1 and that
\* value is cfg.queue_size, the capacity passed to every init; any other
\* argument is a usage error with exit code 1 before a module is opened or a
\* stage initialised.
C28_QueueSizeValidated ==
    /\ QueueSizeAccepted =>
           /\ IsNumeral(argv1)
           /\ queue_size >= 1
           /\ DecStr(queue_size) = Canonical(argv1)
    /\ (pc[Drv] # "d_parse" /\ ~QueueSizeAccepted) =>
           /\ exitcode = 1
           /\ \A i \in Stages : handle[i] = "none" /\ ~initialized[i]

\* Thread t is inside monitor_wait on some gate.
InGateWait(t) == pc[t] \in PutLabels \cup GetLabels \cup FinLabels

\* C29: a thread that is inside a gate wait, whether from put on not_full,
\* from get on not_empty or from wait_finished on finished, holds the
\* structural mutex of no Channel.
C29_NoLockAcrossWait ==
    \A t \in Threads : InGateWait(t) => \A q \in Stages : qlock[q] # t

\* C29 witness: the driver is blocked in put on not_full of the first
\* Channel while another thread holds that Channel's mutex.
C29_Witness ==
    /\ pc[Drv] = "put_cwait"
    /\ qlock[0] \notin {NoThread, Drv}

\* Gate g goes from signaled to not signaled in this step.
ResetOf(g) == signaled[g] /\ ~signaled'[g]

\* Thread t, in put on Channel q, finds it full and turns to wait.
PutTurnsToWait(t, q) ==
    /\ pc[t] = "put_lock" /\ PutChan(t) = q
    /\ pc'[t] = "put_wait"

\* Thread t, in get on Channel q, finds it empty and turns to wait.
GetTurnsToWait(t, q) ==
    /\ pc[t] = "get_lock" /\ GetChan(t) = q
    /\ pc'[t] = "get_wait"

\* C30: a step that resets not_full of a Channel is the step of a thread in
\* put that took the free structural mutex, saw count = capacity and turns
\* to wait; a step that resets not_empty is the step of a thread in get that
\* took the mutex, saw count = 0 and turns to wait; a thread turns to wait
\* in no other case; and no step resets a finished gate.
C30_ResetsOnlyBeforeWait ==
    [][ \A q \in Stages :
          /\ ResetOf(<<q, "not_full">>) =>
                 \E t \in PipeThreads : PutTurnsToWait(t, q)
          /\ (\E t \in PipeThreads : PutTurnsToWait(t, q)) =>
                 /\ count[q] = capacity[q]
                 /\ qlock[q] = NoThread
                 /\ ~signaled'[<<q, "not_full">>]
          /\ ResetOf(<<q, "not_empty">>) =>
                 \E t \in PipeThreads : GetTurnsToWait(t, q)
          /\ (\E t \in PipeThreads : GetTurnsToWait(t, q)) =>
                 /\ count[q] = 0
                 /\ qlock[q] = NoThread
                 /\ ~signaled'[<<q, "not_empty">>]
          /\ ~ResetOf(<<q, "finished">>) ]_vars

\* C30 witness: the driver has reset not_full of the first Channel, which a
\* get had signaled before, and is about to wait on it.
C30_Witness ==
    /\ pc[Drv] = "put_wait"
    /\ ~signaled[<<0, "not_full">>]
    /\ Len(getlog[0]) >= 1
    /\ count[0] = capacity[0]

\* The driver has left wire_plugins: it is feeding, tearing down, or has
\* exited after that.
WirePhaseDone ==
    /\ pc[Drv] \notin {"d_parse", "d_load", "d_init", "d_rollback", "d_wire"}
    /\ ~LoadFailed
    /\ ~InRollback

\* C31: after wire_plugins the forward handle of every stage but the last is
\* the place_work of the next stage and the last stage has none, until
\* plugin_fini of the stage clears it; wire_plugins calls attach once per
\* stage but the last, in pipeline order (while it runs, the stages before
\* its position are attached and the others are not).
C31_ForwardHandles ==
    /\ WirePhaseDone =>
          \A i \in 0..(n - 1) :
             next_place_work[i] =
                IF initialized[i] /\ i < n - 1 THEN i + 1 ELSE NoStage
    /\ pc[Drv] = "d_wire" =>
          \A i \in 0..(n - 1) :
             next_place_work[i] = IF i < dk THEN i + 1 ELSE NoStage

\* C31 witness: two stages are wired and lines went through the first.
C31_Witness ==
    /\ n = 2
    /\ WirePhaseDone
    /\ next_place_work[0] = 1
    /\ next_place_work[1] = NoStage
    /\ Len(putlog[1]) >= 1

(* ------------------------------ claims C31.. -------------------------- *)
\* The worker of stage i has left its loop by itself.
WorkerLeftLoop(i) == pc[Wrk(i)] \in {"w_finish", "w_exited", "w_joined"}

\* C32: a line whose transform returned NULL is not forwarded (what a stage
\* placed in the next one is the transforms of the lines its transform
\* returned a string for, in order, then at most <END>); the worker goes on:
\* every line it dequeued was given to the transform, with or without a
\* result, but for the one it holds, and it leaves its loop only on the
\* terminator or a failed get; a worker that dequeued the terminator after a
\* failure has placed <END> in the next stage and signals finished.
C32_TransformFailureSkipsLine ==
    \A i \in 0..(n - 1) :
       /\ i + 1 < n =>
             \A k \in 1..Len(putlog[i + 1]) :
                IF k <= Len(tlog[i])
                THEN putlog[i + 1][k] = plugin_transform(kinds[i + 1], tlog[i][k])
                ELSE k = Len(tlog[i]) + 1 /\ putlog[i + 1][k] = END
       /\ i + 1 < n => Len(putlog[i + 1]) >= Len(tlog[i])
       /\ IsSubseq(tlog[i], getlog[i])
       /\ IsSubseq(tfail[i], getlog[i])
       /\ Len(getlog[i]) - (Len(tlog[i]) + Len(tfail[i])) \in {0, 1}
       /\ WorkerLeftLoop(i) => (got[Wrk(i)] = Null \/ IsShutdownMarker(got[Wrk(i)]))
       /\ (WorkerLeftLoop(i) /\ got[Wrk(i)] # Null /\ i + 1 < n)
             => (putlog[i + 1] # <<>> /\ Last(putlog[i + 1]) = END)
       /\ (pc[Wrk(i)] \in {"w_exited", "w_joined"}) => signaled[<<i, "finished">>]

\* C32 witness: the transform of the first stage failed for the first line
\* and returned a string for the second one, which was forwarded, then the
\* terminator was forwarded and the worker exited.
C32_Witness ==
    /\ n = 2
    /\ Len(fed) = 3
    /\ tfail[0] = <<fed[1]>>
    /\ tlog[0] = <<fed[2]>>
    /\ putlog[1] = <<plugin_transform(kinds[1], fed[2]), END>>
    /\ pc[Wrk(0)] = "w_exited"
    /\ signaled[<<0, "finished">>]

\* C33: a worker that has exited (it dequeued the terminator, with its
\* forward failed or not, or its get failed) has set finished and signaled
\* the finished gate of its stage, so the driver is not left blocked in
\* wait_finished of that stage.
C33_ExitSignalsFinished ==
    \A i \in 0..(n - 1) :
       (pc[Wrk(i)] \in {"w_exited", "w_joined"}) =>
          /\ finished[i]
          /\ signaled[<<i, "finished">>]
          /\ InWaitFinished(i) => pc[Drv] # "fin_cwait"

\* C33 witness: the get of the only worker failed, the worker exited, and
\* the driver's wait_finished on the stage has returned.
C33_Witness ==
    /\ n = 1
    /\ got[Wrk(0)] = Null
    /\ pc[Wrk(0)] = "w_exited"
    /\ signaled[<<0, "finished">>]
    /\ pc[Drv] = "d_fini"

\* Thread t is inside a get: from its call to its return.
InGet(t) == pc[t] \in {"get_lock", "get_take", "get_commit"} \cup GetLabels

\* C34: once plugin_fini of a stage has destroyed its queue, no thread is
\* inside a put or a get on that queue, and none starts one later: the
\* stage's worker has been joined, and the thread that fills the queue (the
\* worker of the stage before, the driver for the head stage) has made its
\* last put: the worker has left its loop (or ended with the process, on an
\* exit of the driver), the driver has left feed_input.
C34_NoUseAfterDestroy ==
    \A i \in 0..(n - 1) :
       Finalized(i) =>
          /\ ~registered[i]
          /\ \A t \in PipeThreads :
                /\ InPut(t) => PutChan(t) # i
                /\ InGet(t) => GetChan(t) # i
          /\ i > 0 => (WorkerLeftLoop(i - 1) \/ pc[Wrk(i - 1)] = "w_killed")
          /\ i = 0 => pc[Drv] \in {"d_close", "d_fini", "d_exit", "d_done"}

\* C34 witness: the queue of the second of two stages is destroyed after it
\* carried lines, and the first stage is not finalized yet.
C34_Witness ==
    /\ n = 2
    /\ Finalized(1)
    /\ ~Finalized(0)
    /\ Len(getlog[1]) >= 2
    /\ ~registered[1]

(* ------ one module loaded twice with dlopen: one context, two positions ---- *)
\* load_plugin with ANALYZER_DLMOPEN=0: dlopen of one file gives every
\* position the same handle, hence the same global_plugin_context, here
\* context 0 with queue 0. The positions name the same stage.
SharedPipelines == { p \in Pipelines : \A i \in 1..Len(p) : p[i] = p[1] }

\* main after step2_load_or_exit, at init_plugin.
InitShared ==
    /\ InitCommon
    /\ argv1 = <<>>
    /\ kinds \in SharedPipelines
    /\ n = Len(kinds)
    /\ queue_size \in 1..MaxQueue
    /\ capacity = [q \in Stages |-> 0]
    /\ items = [q \in Stages |-> <<>>]
    /\ registered = [q \in Stages |-> FALSE]
    /\ pc = [t \in Threads |-> IF t = Drv THEN "s_init" ELSE "off"]
    /\ pquota = 0
    /\ cquota = 0

NeverInitialized(c) == FALSE

\* common_plugin_init, `if (global_plugin_context.initialized)`.
AlreadyInitialized(c) == initialized[c]

\* init_plugin, one iteration on the shared context: plugin_init of position
\* dk is common_plugin_init on context 0. On an initialized context it
\* returns "plugin already initialized" before it touches anything, and the
\* driver turns to its rollback, whose plugin_fini joins the worker that is
\* blocked in get. Else it sets up the queue and spawns the worker.
SharedInit ==
    /\ pc[Drv] = "s_init"
    /\ IF AlreadyInitialized(0)
       THEN /\ errmsg' = "plugin already initialized"
            /\ pc' = [pc EXCEPT ![Drv] = "s_rollback"]
            /\ UNCHANGED <<dk, ctxVars, ringVars, registered, signaled>>
       ELSE /\ capacity' = [capacity EXCEPT ![0] = queue_size]
            /\ items' = [items EXCEPT ![0] = EmptyRing(queue_size)]
            /\ count' = [count EXCEPT ![0] = 0]
            /\ head' = [head EXCEPT ![0] = 0]
            /\ tail' = [tail EXCEPT ![0] = 0]
            /\ live' = [live EXCEPT ![0] = {}]
            /\ signaled' = [g \in Gates |->
                              IF g[1] = 0 /\ g[2] \in GateNames THEN FALSE
                              ELSE signaled[g]]
            /\ registered' = [registered EXCEPT ![0] = TRUE]
            /\ next_place_work' = [next_place_work EXCEPT ![0] = NoStage]
            /\ finished' = [finished EXCEPT ![0] = FALSE]
            /\ initialized' = [initialized EXCEPT ![0] = TRUE]
            /\ IF dk + 1 < n
               THEN /\ dk' = dk + 1
                    /\ pc' = [pc EXCEPT ![Wrk(dk)] = "get_lock"]
               ELSE /\ dk' = 0
                    /\ pc' = [pc EXCEPT ![Wrk(dk)] = "get_lock", ![Drv] = AfterInit]
            /\ UNCHANGED errmsg
    /\ UNCHANGED <<cfgVars, tfail, handle, fed, exitcode, qlock, titem, got, logVars,
                   harnessVars>>

NextShared ==
    \/ SharedInit
    \/ DrvFeed \/ DrvFeedEnd \/ DrvFeedEof \/ DrvFeedReadError
    \/ DrvWaitFinishedFail \/ DrvFiniFail \/ DrvFini \/ DrvClose \/ DrvExit
    \/ \E t \in PipeThreads : Put(t)
    \/ \E t \in PipeThreads : Get(t)
    \/ \E t \in PipeThreads : MonitorWait(t)
    \/ \E t \in PipeThreads : SpuriousWake(t)
    \/ \E t \in PipeThreads : WorkerHave(t)
    \/ \E t \in PipeThreads : WorkerFinish(t)

SpecShared == InitShared /\ [][NextShared]_vars

\* The worker threads that exist.
RunningWorkers == { i \in Stages : pc[Wrk(i)] \notin {"off", "w_joined"} }

\* C35: a context has at most one worker thread and one queue at any time,
\* and a plugin_init on an initialized context returns the error "plugin
\* already initialized" and leaves the queue, its gates, the worker and the
\* forward handle as they were.
C35_InitOnInitializedRefused ==
    /\ [](Cardinality(RunningWorkers) <= 1)
    /\ [][(pc[Drv] = "s_init" /\ pc'[Drv] # "s_init" /\ initialized[0])
            => /\ errmsg' = "plugin already initialized"
               /\ UNCHANGED <<ctxVars, chanVars, signaled>>
               /\ \A t \in Workers : pc'[t] = pc[t]]_vars

\* C35 witness: the second position's init was refused while the worker of
\* the first is blocked in get on the queue that init set up.
C35_Witness ==
    /\ n = 2
    /\ pc[Drv] = "s_rollback"
    /\ errmsg = "plugin already initialized"
    /\ initialized[0]
    /\ pc[Wrk(0)] = "get_cwait"
    /\ capacity[0] = queue_size

\* Gate g goes from not signaled to signaled in this step.
SignalOf(g) == ~signaled[g] /\ signaled'[g]

\* C36 as stated, of the retry path of get: in the step in which a get finds
\* the ring empty and turns to wait, having lifted nothing, not_full is
\* signaled.
C36_RetryPathSignalsNotFull ==
    [][ \A q \in Stages :
          (\E t \in Threads : GetTurnsToWait(t, q)) =>
              signaled'[<<q, "not_full">>] ]_vars

\* C36 amended: not_full becomes signaled only in the step of a get that
\* lifted an element (count goes down by one); a get that finds the ring
\* empty resets not_empty and leaves not_full, count, head and tail as they
\* are.
C36_NotFullOnlyAfterLift ==
    [][ \A q \in Stages :
          /\ SignalOf(<<q, "not_full">>) =>
                \E t \in Threads :
                   /\ pc[t] = "get_commit" /\ GetChan(t) = q
                   /\ count'[q] = count[q] - 1
          /\ (\E t \in Threads : GetTurnsToWait(t, q)) =>
                /\ signaled'[<<q, "not_full">>] = signaled[<<q, "not_full">>]
                /\ ~signaled'[<<q, "not_empty">>]
                /\ UNCHANGED <<count, head, tail>> ]_vars

\* C36 witness: the consumer found the ring empty, reset not_empty and
\* waits, and not_full is not signaled.
C36_Witness ==
    /\ pc[Cons] \in GetLabels
    /\ count[0] = 0
    /\ getlog[0] = <<>>
    /\ ~signaled[<<0, "not_full">>]
    /\ ~signaled[<<0, "not_empty">>]

C38_NoDequeueBeforeWire ==
    /\ ~WirePhaseDone =>
          \A i \in 0..(n - 1) :
             /\ getlog[i] = <<>>
             /\ putlog[i] = <<>>
             /\ pc[Wrk(i)] \in {"off", "get_lock", "w_killed"} \cup GetLabels
    /\ \A i \in 0..(n - 2) :
          /\ pc[Wrk(i)] = "w_have" => next_place_work[i] = i + 1
          /\ Len(putlog[i + 1]) >= Len(tlog[i])
          /\ \A k \in 1..Len(tlog[i]) :
                putlog[i + 1][k] = plugin_transform(kinds[i + 1], tlog[i][k])

\* C38 witness: wire_plugins is about to attach the first of two stages
\* while both workers are already blocked in get.
C38_Witness ==
    /\ n = 2
    /\ pc[Drv] = "d_wire"
    /\ next_place_work[0] = NoStage
    /\ pc[Wrk(0)] = "get_cwait"
    /\ pc[Wrk(1)] = "get_cwait"

(* ------------- one queue, with a call of signal_finished --------------- *)
\* The producer thread, between two puts, calls
\* consumer_producer_signal_finished(&q) (a second call changes nothing).
ProdSignalFinished ==
    /\ pc[Prod] = "p_idle"
    /\ ~signaled[FinishedGate(0)]
    /\ signaled' = monitor_signal_flag(FinishedGate(0))
    /\ pc' = CondBroadcast(FinishedGate(0), pc)
    /\ UNCHANGED <<cfgVars, tfail, modVars, drvVars, ctxVars, chanVars, titem, got,
                   logVars, harnessVars>>

NextFin == NextChan \/ ProdSignalFinished

SpecFin == InitChan /\ [][NextFin]_vars

\* C39: signal_finished changes neither count, head, tail, the ring nor the
\* not_empty and not_full gates, and moves no thread that is inside a get;
\* a consumer waiting in get on an empty queue has not_empty not signaled,
\* whatever the finished gate, and a get that finds the queue empty waits:
\* it returns only with an element that a put stored.
C39_FinishedDoesNotUnblockGet ==
    /\ []((pc[Cons] \in GetLabels /\ count[0] = 0) => ~signaled[<<0, "not_empty">>])
    /\ [](Len(getlog[0]) + count[0] <= Len(putlog[0]))
    /\ [][ /\ SignalOf(<<0, "finished">>) =>
                /\ UNCHANGED <<count, head, tail, items, live, qlock>>
                /\ signaled'[<<0, "not_empty">>] = signaled[<<0, "not_empty">>]
                /\ signaled'[<<0, "not_full">>] = signaled[<<0, "not_full">>]
                /\ pc'[Cons] = pc[Cons]
           /\ (pc[Cons] = "get_lock" /\ count[0] = 0) =>
                pc'[Cons] \in {"get_lock", "get_wait"} ]_vars

\* C39 witness: the consumer is blocked in get on the empty queue after the
\* finished gate was signaled.
C39_Witness ==
    /\ pc[Cons] = "get_cwait"
    /\ count[0] = 0
    /\ signaled[<<0, "finished">>]
    /\ ~signaled[<<0, "not_empty">>]
    /\ getlog[0] = <<>>

\* The worker of stage i holds a line: from the return of its get to the
\* end of its forward (for the last stage, to the return of its transform).
Holds(i) == pc[Wrk(i)] = "w_have" \/ InPut(Wrk(i))

\* The lines inside the stages 0..i: buffered in the queues plus held by the
\* workers.
RECURSIVE HeldUpTo(_)
HeldUpTo(i) ==
    IF i < 0 THEN 0
    ELSE count[i] + (IF Holds(i) THEN 1 ELSE 0) + HeldUpTo(i - 1)

\* C40: the lines inside a pipeline of n stages with queue size Q are at
\* most n * (Q + 1); when they are that many the queue of the head stage is
\* full and the driver is not storing: its place_work waits.
C40_BoundedInFlight ==
    /\ HeldUpTo(n - 1) <= n * (queue_size + 1)
    /\ HeldUpTo(n - 1) = n * (queue_size + 1) =>
          /\ count[0] = capacity[0]
          /\ pc[Drv] \notin {"put_store", "put_commit"}

\* C40 witness: the bound is reached and the driver is blocked in its put
\* on the head stage.
C40_Witness ==
    /\ HeldUpTo(n - 1) = n * (queue_size + 1)
    /\ pc[Drv] = "put_cwait"
    /\ Holds(0)

====
